---- MODULE Spec2Model ----
(***************************************************************************)
(* Model of the ESP32 sensor gateway sketch (MouJieQin/aihome).           *)
(*                                                                         *)
(* Four revisions of the sketch are in the repository:                     *)
(*   "part_000"   src/unnamed/part_000 lines 1-765: WebSocket + MQTT with *)
(*                WiFi supervision, watchdog and 24 h restart              *)
(*   "main_cpp"   src/Esp32-main/src/main.cpp: WebSocket + MQTT            *)
(*   "part_000b"  src/unnamed/part_000 lines 766-1227: WebSocket only      *)
(*   "Esp32_ino"  src/Esp32/Esp32.ino: WebSocket only, DHT22 only          *)
(* The variable rev fixes the revision a behaviour runs.                   *)
(*                                                                         *)
(* Time is millis() in milliseconds.  unsigned long is modelled with 30    *)
(* bits instead of 32 (TLC integers are 32 bit signed).                    *)
(***************************************************************************)
EXTENDS Integers, Sequences, FiniteSets, TLC

VARIABLES
  rev,              \* revision of the sketch that is running
  pc,               \* position of the Arduino task (setup / loop)
  now,              \* millis()
  wifi,             \* WiFi.status(): "Disconnected", "Connecting", "Connected"
  linkUpAt,         \* environment: millis() at which the pending association completes, Never if it does not
  mqttConnected,    \* client.connected()
  lastUpdate,       \* delayer_mqtt_push.lastUpdate
  lastRestartTime,  \* lastRestartTime (global)
  startAttemptTime, \* local of reconnectWiFi
  caller,           \* who called reconnectWiFi: "push" (mqtt_push_imple) or "loop"
  instance,         \* Websocket_manager::instance != nullptr
  tickLog,          \* calls made in the current loop tick (or in setup), cleared when the tick ends
  pushState,        \* outcome of the most recent mqtt_push_imple
  pushLate,         \* observation: the push of this tick started two or more whole intervals after the baseline
  tem_hum,          \* local of mqtt_push_imple: the DHT22 reading of the last push
  ch2o,             \* local of mqtt_push_imple: the gas reading of the last push
  lastPushAt,       \* history: millis() read by the timer when it started the last push, NoPush before
  hsFailBase,       \* history: push start of the last failed broker handshake, NoFail if the last one succeeded
  wsIn,             \* the inbound event handled last by event_handler_static
  wsSent,           \* frames sent by ws.text while handling wsIn
  wsCalls,          \* sensor facade reads and client calls made while handling wsIn
  wsRd,             \* what the facades returned to the read made while handling wsIn
  wsReading,        \* the facade whose read the handler has in flight, "none" if it has none
  wsDelivered,      \* history: the accepted requests in the order the transport delivered them
  wsOut,            \* history: the frames passed to ws.text, in order
  timerCalls,       \* number of calls of is_expired_when_delay made on the timer under test
  timerRet,         \* what the last of these calls returned
  timerMs,          \* the interval argument of the last call
  timerPrev,        \* lastUpdate before the last call
  timerElapsed,     \* true time between the recording of timerPrev and the last call
  timerSince,       \* true time since lastUpdate was recorded
  wdtFedAt,         \* millis() at the watchdog reset of the current tick (at its enabling in setup), Never without one
  is_active_mode,   \* Sensor_ZE08_CH2O::is_active_mode
  wzCalls,          \* calls the gas facade made on the WZ driver in its last operation
  gasOp,            \* the last operation called on the gas facade
  gasFrame,         \* what the driver's frame read reported in that operation
  gasRet,           \* what the facade returned from it
  gasCount,         \* number of operations called on the gas facade
  statics,          \* the static locals of the getInstance functions and the initialisations made
  published         \* tem_str, hum_str and ch2o_str of mqtt_push_imple, as published

vars == <<rev, pc, now, wifi, linkUpAt, mqttConnected, lastUpdate, lastRestartTime,
          startAttemptTime, caller, instance, tickLog, pushState, pushLate, tem_hum,
          ch2o, lastPushAt, hsFailBase, wsIn, wsSent, wsCalls, wsRd, wsReading,
          wsDelivered, wsOut, timerCalls, timerRet, timerMs, timerPrev, timerElapsed,
          timerSince, wdtFedAt, is_active_mode, wzCalls, gasOp, gasFrame, gasRet,
          gasCount, statics, published>>

loopVars == <<pc, now, wifi, linkUpAt, mqttConnected, lastUpdate, lastRestartTime,
              startAttemptTime, caller, instance, tickLog, pushState, pushLate,
              tem_hum, ch2o, lastPushAt, hsFailBase, wdtFedAt>>

wsVars == <<wsIn, wsSent, wsCalls, wsRd, wsReading>>

wsHistory == <<wsDelivered, wsOut>>

timerVars == <<timerCalls, timerRet, timerMs, timerPrev, timerElapsed, timerSince>>

facadeVars == <<is_active_mode, wzCalls, gasOp, gasFrame, gasRet, gasCount, statics>>

----------------------------------------------------------------------------
(* Bounds of the model *)

MaxClock == 50000

\* number of frames the transport delivers where the order of the responses is recorded
MaxFrames == 3

\* number of calls made on the timer where it is examined on its own
MaxTimerCalls == 3

\* elapsed time of the tail of one loop tick (delay(10) plus the time the tick took)
TickElapsed == {3500, 7000, 21000}

\* latency of an association request issued by WiFi.begin
LinkLatency == {500, 30500}

----------------------------------------------------------------------------
(* Program constants *)

ULONG_MAX == 2^30 - 1

PUSH_INTERVAL_MS == 7000

WIFI_TIMEOUT_MS == 30000

WIFI_POLL_MS == 500

WIFI_DISCONNECT_DELAY_MS == 1000

WIFI_FAIL_DELAY_MS == 5000

RESTART_INTERVAL == 24 * 60 * 60 * 1000

\* seconds
WDT_TIMEOUT == 5

Never == -1

NoPush == -1

NoFail == -1

Revisions == {"part_000", "main_cpp", "part_000b", "Esp32_ino"}

HasMqtt(rv) == rv \in {"part_000", "main_cpp"}

HasSupervisor(rv) == rv = "part_000"

TOPIC_TEMPERATURE == "homeassistant/sensor/dht22/temperature"

TOPIC_HUMIDITY == "homeassistant/sensor/dht22/humidity"

TOPIC_CH2O == "homeassistant/sensor/ze08_ch2o/state"

CONFIG_TEMPERATURE == "homeassistant/sensor/dht22_temperature/config"

CONFIG_HUMIDITY == "homeassistant/sensor/dht22_humidity/config"

CONFIG_CH2O == "homeassistant/sensor/ze08_ch2o/config"

StateTopics == {TOPIC_TEMPERATURE, TOPIC_HUMIDITY, TOPIC_CH2O}

ConfigTopics == {CONFIG_TEMPERATURE, CONFIG_HUMIDITY, CONFIG_CH2O}

----------------------------------------------------------------------------
(* Values *)

\* a float (IEEE 754 single precision): NaN, or the value m * 2^(e - 23) with
\* 2^23 <= |m| < 2^24, or zero (m = 0, e = 0)
NaNf == [nan |-> TRUE, m |-> 0, e |-> 0]

Flt(m, e) == [nan |-> FALSE, m |-> m, e |-> e]

isnan(x) == x.nan

\* readings the DHT22 driver can return: NaN, 22.5
DhtTemperatures == {NaNf, Flt(11796480, 4)}

\* readings the DHT22 driver can return: NaN, 40.0
DhtHumidities == {NaNf, Flt(10485760, 5)}

\* outcome of wz.read(hcho_data) in mqtt_push_imple: frame available and its ppb
GasFrames == {[ok |-> FALSE, ppb |-> 0], [ok |-> TRUE, ppb |-> 120]}

\* log entries are pairs <<call, argument>>
Ev(op, arg) == <<op, arg>>

Count(log, e) == Cardinality({i \in 1..Len(log) : log[i] = e})

CountOp(log, op) == Cardinality({i \in 1..Len(log) : log[i][1] = op})

\* unsigned subtraction of unsigned long
USub(a, b) == (a - b + ULONG_MAX + 1) % (ULONG_MAX + 1)

----------------------------------------------------------------------------
(* NonblockingDelayer *)

\* variant: the baseline advances by one interval instead of being set to the clock
is_expired_when_delay_fixed_rate(lu, t, ms) ==
  IF lu = ULONG_MAX
    THEN [ret |-> FALSE, lastUpdate |-> t]
    ELSE IF USub(t, lu) >= ms
      THEN [ret |-> TRUE, lastUpdate |-> (lu + ms) % (ULONG_MAX + 1)]
      ELSE [ret |-> FALSE, lastUpdate |-> lu]

\* variant: the first call returns false without recording the clock
is_expired_when_delay_unarmed(lu, t, ms) ==
  IF lu = ULONG_MAX
    THEN [ret |-> FALSE, lastUpdate |-> lu]
    ELSE IF USub(t, lu) >= ms
      THEN [ret |-> TRUE, lastUpdate |-> t]
      ELSE [ret |-> FALSE, lastUpdate |-> lu]

\* variant: the constructor sets the baseline to 0 and there is no arming call
is_expired_when_delay_from_zero(lu, t, ms) ==
  LET b == IF lu = ULONG_MAX THEN 0 ELSE lu IN
  IF USub(t, b) >= ms
    THEN [ret |-> TRUE, lastUpdate |-> t]
    ELSE [ret |-> FALSE, lastUpdate |-> b]

\* variant: a call that finds the interval not elapsed moves the baseline to the clock
is_expired_when_delay_sliding(lu, t, ms) ==
  IF lu # ULONG_MAX /\ USub(t, lu) >= ms
    THEN [ret |-> TRUE, lastUpdate |-> t]
    ELSE [ret |-> FALSE, lastUpdate |-> t]

is_expired_when_delay(lu, t, ms) ==
  IF lu = ULONG_MAX
    THEN [ret |-> FALSE, lastUpdate |-> t]
    ELSE IF USub(t, lu) >= ms
      THEN [ret |-> TRUE, lastUpdate |-> t]
      ELSE [ret |-> FALSE, lastUpdate |-> lu]

----------------------------------------------------------------------------
(* WiFi link as the driver reports it *)

WiFiAt(w, upAt, t) ==
  IF w = "Connecting" /\ upAt # Never /\ t >= upAt THEN "Connected" ELSE w

UpAtAfter(w, upAt, t) ==
  IF WiFiAt(w, upAt, t) = "Connecting" THEN upAt ELSE Never

isWiFiConnected == wifi = "Connected"

\* variant: reconnectWiFi without its early return
reconnect_needed_always(w) == TRUE

\* reconnectWiFi goes on past its first line: if (isWiFiConnected()) return true;
reconnect_needed(w) == w # "Connected"

\* variant: the loop goes on while the elapsed time is <= the timeout
RECURSIVE reconnect_poll_le(_, _, _, _)
reconnect_poll_le(w, upAt, start, t) ==
  IF WiFiAt(w, upAt, t) # "Connected" /\ USub(t, start) <= WIFI_TIMEOUT_MS
    THEN reconnect_poll_le(w, upAt, start, t + WIFI_POLL_MS)
    ELSE t

\* the polling loop of reconnectWiFi: the value of millis() when the loop exits
RECURSIVE reconnect_poll(_, _, _, _)
reconnect_poll(w, upAt, start, t) ==
  IF WiFiAt(w, upAt, t) # "Connected" /\ USub(t, start) < WIFI_TIMEOUT_MS
    THEN reconnect_poll(w, upAt, start, t + WIFI_POLL_MS)
    ELSE t

\* the clock reading up to which a behaviour is followed: MaxClock after a start,
\* and as much after the restart interval for a behaviour followed from its end on
Horizon(t) ==
  IF t >= RESTART_INTERVAL - MaxClock THEN RESTART_INTERVAL + MaxClock ELSE MaxClock

\* delay(ms): the clock advances and the link may have come up meanwhile
Delay(ms) ==
  /\ now + ms <= Horizon(now)
  /\ now' = now + ms
  /\ wifi' = WiFiAt(wifi, linkUpAt, now + ms)
  /\ linkUpAt' = UpAtAfter(wifi, linkUpAt, now + ms)

----------------------------------------------------------------------------
(* Sensor facades *)

\* the largest value of uint16_t
MaxPpb == 65535

\* the exponent of ppb * 0.00125 = ppb / (25 * 2^5): 2^e <= ppb / 800 < 2^(e + 1)
mgm3_exponent(ppb) ==
  CHOOSE e \in -10..6 : 25 * 2^(e + 10) <= ppb * 32 /\ ppb * 32 < 25 * 2^(e + 11)

\* variant: the product is cut off to 24 bits instead of rounded
ppb_to_mgm3_truncated(ppb) ==
  IF ppb = 0 THEN Flt(0, 0)
  ELSE LET e == mgm3_exponent(ppb) IN Flt((ppb * 2^(18 - e)) \div 25, e)

\* return ppb * 0.00125; as a float: the product is computed in double precision
\* and converted to single precision, which gives the float nearest to ppb / 800
\* (the double is within 2^-52 of ppb / 800, and no ppb / 800 that is not itself a
\* float lies that close to the middle of two floats)
ppb_to_mgm3(ppb) ==
  IF ppb = 0 THEN Flt(0, 0)
  ELSE LET e == mgm3_exponent(ppb)
           q == (ppb * 2^(18 - e)) \div 25
           r == (ppb * 2^(18 - e)) % 25
           m == IF 2 * r > 25 THEN q + 1 ELSE q
       IN IF m = 2^24 THEN Flt(2^23, e + 1) ELSE Flt(m, e)

\* variant: the values of the frame buffer are returned also when no frame was read
ze08_read_stale(frame) ==
  [first |-> frame.ok, ppb |-> frame.ppb, mgm3 |-> ppb_to_mgm3(frame.ppb)]

\* Sensor_ZE08_CH2O::read, given the outcome of wz.read(hcho_data)
ze08_read(frame) ==
  IF frame.ok
    THEN [first |-> TRUE, ppb |-> frame.ppb, mgm3 |-> ppb_to_mgm3(frame.ppb)]
    ELSE [first |-> FALSE, ppb |-> 0, mgm3 |-> Flt(0, 0)]

\* Sensor_ZE08_CH2O::readUntil, given the outcome of wz.readUntil(hcho_data, timeout)
ze08_readUntil(frame) ==
  IF frame.ok
    THEN [first |-> TRUE, ppb |-> frame.ppb, mgm3 |-> ppb_to_mgm3(frame.ppb)]
    ELSE [first |-> FALSE, ppb |-> 0, mgm3 |-> Flt(0, 0)]

\* variant: a reading is requested in both modes
ze08_calls_unconditional(active, op) == <<"requestRead", op>>

\* the calls read (op "read") and readUntil (op "readUntil") make on the driver
ze08_calls(active, op) == (IF ~active THEN <<"requestRead">> ELSE <<>>) \o <<op>>

\* a static local that was not constructed yet
NoInstance == [made |-> FALSE, arg |-> <<>>]

\* before the first getInstance call: no static local constructed, no hardware
\* initialised; ret is what the last getInstance call returned
NoStatics ==
  [dht22 |-> NoInstance, ze08 |-> NoInstance, manager |-> NoInstance,
   dht_begin |-> 0, mode_cmd |-> 0, wifi_begin |-> 0, server_begin |-> 0,
   calls |-> 0, cls |-> "none", ret |-> NoInstance]

\* the object a constructor call with the arguments arg makes
Instance(arg) == [made |-> TRUE, arg |-> arg]

\* Sensor_DHT22::getInstance(pin): the static local is constructed by the first
\* call, instance.setup() with its dht.begin() is called by every call
Sensor_DHT22_getInstance(st, pin) ==
  LET s1 == IF ~st.dht22.made THEN [st EXCEPT !.dht22 = Instance(<<pin>>)] ELSE st
  IN [s1 EXCEPT !.dht_begin = @ + 1, !.cls = "dht22", !.ret = s1.dht22]

\* Sensor_ZE08_CH2O::getInstance(activeMode): the constructor, run by the first
\* call, sends the mode command
Sensor_ZE08_CH2O_getInstance(st, activeMode) ==
  LET s1 == IF ~st.ze08.made
              THEN [st EXCEPT !.ze08 = Instance(<<activeMode>>), !.mode_cmd = @ + 1]
              ELSE st
  IN [s1 EXCEPT !.cls = "ze08", !.ret = s1.ze08]

\* Websocket_manager::getInstance(ssid, ..., pin_DHT22): the constructor, run by
\* the first call, gets the two facades and calls setup(), which calls WiFi.begin
\* and server.begin
Websocket_manager_getInstance(st, ssid, pin_DHT22) ==
  LET s1 == IF ~st.manager.made
              THEN LET a == Sensor_DHT22_getInstance(st, pin_DHT22)
                       b == Sensor_ZE08_CH2O_getInstance(a, TRUE)
                   IN [b EXCEPT !.manager = Instance(<<ssid, pin_DHT22>>),
                                !.wifi_begin = @ + 1, !.server_begin = @ + 1]
              ELSE st
  IN [s1 EXCEPT !.cls = "manager", !.ret = s1.manager]

NoDht == <<NaNf, NaNf>>

NoGas == [first |-> FALSE, ppb |-> 0, mgm3 |-> Flt(0, 0)]

----------------------------------------------------------------------------
(* Decimal strings *)

\* the text dtostrf writes: sign, the digits as the integer n (the absolute value
\* times 10^prec) and the number of fraction digits
Str(neg, n, prec) == [neg |-> neg, n |-> n, prec |-> prec]

\* the number of decimal digits of the natural number n
DecDigits(n) ==
  IF n >= 10^9 THEN 10
  ELSE CHOOSE k \in 1..9 : n < 10^k /\ (k = 1 \/ n >= 10^(k - 1))

\* strlen of the text: the sign, the integer digits, the point and the fraction digits
StrLen(str) ==
  (IF str.neg THEN 1 ELSE 0) + DecDigits(str.n \div 10^str.prec)
    + (IF str.prec > 0 THEN 1 + str.prec ELSE 0)

\* char ch2o_str[10]
CH2O_STR_SIZE == 10

\* a buffer that was not written
NoStr == Str(FALSE, -1, 0)

NoStrings == [tem_str |-> NoStr, hum_str |-> NoStr, ch2o_str |-> NoStr]

Abs(x) == IF x < 0 THEN -x ELSE x

\* |f.m| * 5^prec as hi * 4096 + lo; |f| * 10^prec is this number divided by
\* 2^(23 - f.e - prec)
Times5Pow(f, prec) ==
  LET a == Abs(f.m)
      low == (a % 4096) * 5^prec
  IN [hi |-> (a \div 4096) * 5^prec + low \div 4096, lo |-> low % 4096]

\* where |f| * 10^prec lies between two integers: 1 above the middle, 0 in the
\* middle, -1 below it (P and s as in Times5Pow)
AgainstHalf(P, s) ==
  IF s > 42 THEN -1
  ELSE IF s > 12
    THEN LET r == P.hi % 2^(s - 12)
             h == 2^(s - 13)
         IN IF r > h THEN 1 ELSE IF r < h THEN -1 ELSE IF P.lo > 0 THEN 1 ELSE 0
  ELSE IF s = 12 THEN (IF P.lo > 2048 THEN 1 ELSE IF P.lo < 2048 THEN -1 ELSE 0)
  ELSE IF s >= 1
    THEN LET r == P.lo % 2^s
             h == 2^(s - 1)
         IN IF r > h THEN 1 ELSE IF r < h THEN -1 ELSE 0
  ELSE -1

\* variant: the digits after the last one are cut off
dtostrf_truncating(f, prec, up) ==
  LET P == Times5Pow(f, prec)
      s == 23 - f.e - prec
  IN Str(f.m < 0,
         IF s > 42 THEN 0
         ELSE IF s >= 12 THEN P.hi \div 2^(s - 12)
         ELSE P.hi * 2^(12 - s) + P.lo \div 2^s,
         prec)

\* dtostrf(f, 1, prec, buf) of the ESP32 Arduino core: half a unit of the last
\* digit is added to |f| and the digits are written from the most significant
\* one on, prec of them after the point; the width 1 never pads. The sum and the
\* digits are computed in double arithmetic, which moves a value by far less than
\* a float is away from the middle between two strings unless it is exactly in the
\* middle: there the rounding of the sum decides, and up says which way it goes.
dtostrf(f, prec, up) ==
  LET P == Times5Pow(f, prec)
      s == 23 - f.e - prec
      h == AgainstHalf(P, s)
      cut == IF s > 42 THEN 0
             ELSE IF s >= 12 THEN P.hi \div 2^(s - 12)
             ELSE IF s >= 1 THEN P.hi * 2^(12 - s) + P.lo \div 2^s
             ELSE (P.hi * 4096 + P.lo) * 2^(-s)
  IN Str(f.m < 0, IF h = 1 \/ (h = 0 /\ up) THEN cut + 1 ELSE cut, prec)

\* variant: the gas value is written with 7 fraction digits
push_strings_7digits(th, gas, up) ==
  [tem_str |-> IF ~isnan(th[1]) THEN dtostrf(th[1], 2, up[1]) ELSE NoStr,
   hum_str |-> IF ~isnan(th[2]) THEN dtostrf(th[2], 2, up[2]) ELSE NoStr,
   ch2o_str |-> IF gas.first THEN dtostrf(gas.mgm3, 7, up[3]) ELSE NoStr]

\* tem_str, hum_str and ch2o_str of mqtt_push_imple: a buffer is written iff its
\* reading is published
push_strings(th, gas, up) ==
  [tem_str |-> IF ~isnan(th[1]) THEN dtostrf(th[1], 2, up[1]) ELSE NoStr,
   hum_str |-> IF ~isnan(th[2]) THEN dtostrf(th[2], 2, up[2]) ELSE NoStr,
   ch2o_str |-> IF gas.first THEN dtostrf(gas.mgm3, 5, up[3]) ELSE NoStr]

----------------------------------------------------------------------------
(* MQTT *)

publish_mqtt_discovery ==
  << Ev("publish", CONFIG_TEMPERATURE),
     Ev("publish", CONFIG_HUMIDITY),
     Ev("publish", CONFIG_CH2O) >>

\* variant: the discovery messages are published on every call that returns true
connect_mqtt_always_discovery(rv, connected, wifiUp, hsOk) ==
  IF connected
    THEN [ret |-> TRUE, connected |-> TRUE, log |-> publish_mqtt_discovery]
    ELSE IF HasSupervisor(rv) /\ ~wifiUp
      THEN [ret |-> FALSE, connected |-> FALSE, log |-> <<>>]
      ELSE IF hsOk
        THEN [ret |-> TRUE, connected |-> TRUE,
              log |-> <<Ev("client.connect", "ok")>> \o publish_mqtt_discovery]
        ELSE [ret |-> FALSE, connected |-> FALSE,
              log |-> <<Ev("client.connect", "fail")>>]

\* variant: a failed handshake is tried a second time at once
connect_mqtt_retry(rv, connected, wifiUp, hsOk) ==
  IF connected
    THEN [ret |-> TRUE, connected |-> TRUE, log |-> <<>>]
    ELSE IF HasSupervisor(rv) /\ ~wifiUp
      THEN [ret |-> FALSE, connected |-> FALSE, log |-> <<>>]
      ELSE IF hsOk
        THEN [ret |-> TRUE, connected |-> TRUE,
              log |-> <<Ev("client.connect", "ok")>> \o publish_mqtt_discovery]
        ELSE [ret |-> FALSE, connected |-> FALSE,
              log |-> <<Ev("client.connect", "fail"), Ev("client.connect", "fail")>>]

\* variant: the discovery messages are left out after the handshake
connect_mqtt_silent(rv, connected, wifiUp, hsOk) ==
  IF connected
    THEN [ret |-> TRUE, connected |-> TRUE, log |-> <<>>]
    ELSE IF HasSupervisor(rv) /\ ~wifiUp
      THEN [ret |-> FALSE, connected |-> FALSE, log |-> <<>>]
      ELSE IF hsOk
        THEN [ret |-> TRUE, connected |-> TRUE, log |-> <<Ev("client.connect", "ok")>>]
        ELSE [ret |-> FALSE, connected |-> FALSE,
              log |-> <<Ev("client.connect", "fail")>>]

\* connect_mqtt: connected is client.connected(), wifiUp is isWiFiConnected(),
\* hsOk is the outcome client.connect would have.
connect_mqtt(rv, connected, wifiUp, hsOk) ==
  IF connected
    THEN [ret |-> TRUE, connected |-> TRUE, log |-> <<>>]
    ELSE IF HasSupervisor(rv) /\ ~wifiUp
      THEN [ret |-> FALSE, connected |-> FALSE, log |-> <<>>]
      ELSE IF hsOk
        THEN [ret |-> TRUE, connected |-> TRUE,
              log |-> <<Ev("client.connect", "ok")>> \o publish_mqtt_discovery]
        ELSE [ret |-> FALSE, connected |-> FALSE,
              log |-> <<Ev("client.connect", "fail")>>]

\* variant: the humidity is published when the temperature is valid
push_publishes_coupled(th, gas) ==
  <<Ev("read", "dht22")>>
  \o (IF ~isnan(th[1]) THEN <<Ev("publish", TOPIC_TEMPERATURE)>> ELSE <<>>)
  \o (IF ~isnan(th[1]) THEN <<Ev("publish", TOPIC_HUMIDITY)>> ELSE <<>>)
  \o <<Ev("read", "ze08")>>
  \o (IF gas.first THEN <<Ev("publish", TOPIC_CH2O)>> ELSE <<>>)

\* the reads and publishes of mqtt_push_imple for one set of readings
push_publishes(th, gas) ==
  <<Ev("read", "dht22")>>
  \o (IF ~isnan(th[1]) THEN <<Ev("publish", TOPIC_TEMPERATURE)>> ELSE <<>>)
  \o (IF ~isnan(th[2]) THEN <<Ev("publish", TOPIC_HUMIDITY)>> ELSE <<>>)
  \o <<Ev("read", "ze08")>>
  \o (IF gas.first THEN <<Ev("publish", TOPIC_CH2O)>> ELSE <<>>)

\* variant: the push goes on although reconnectWiFi or connect_mqtt returned false
mqtt_push_imple_no_abort(rv, wifiRet, connected, hsOk, th, gas) ==
  IF HasSupervisor(rv) /\ ~wifiRet
    THEN [state |-> "aborted_wifi", connected |-> connected,
          log |-> <<Ev("client.loop", "")>> \o push_publishes(th, gas),
          tem_hum |-> th, ch2o |-> gas]
    ELSE LET c == connect_mqtt(rv, connected, wifiRet, hsOk) IN
         [state |-> IF ~connected /\ ~c.ret THEN "aborted_mqtt" ELSE "done",
          connected |-> c.connected,
          log |-> c.log \o <<Ev("client.loop", "")>> \o push_publishes(th, gas),
          tem_hum |-> th, ch2o |-> gas]

\* mqtt_push_imple: wifiRet is what reconnectWiFi returned (the link state in
\* main.cpp, which does not call it), connected is client.connected(), hsOk the
\* outcome client.connect would have, th and gas what the facades would return
mqtt_push_imple(rv, wifiRet, connected, hsOk, th, gas) ==
  IF HasSupervisor(rv) /\ ~wifiRet
    THEN [state |-> "aborted_wifi", connected |-> connected, log |-> <<>>,
          tem_hum |-> NoDht, ch2o |-> NoGas]
    ELSE LET c == connect_mqtt(rv, connected, wifiRet, hsOk) IN
         IF ~connected /\ ~c.ret
           THEN [state |-> "aborted_mqtt", connected |-> c.connected, log |-> c.log,
                 tem_hum |-> NoDht, ch2o |-> NoGas]
           ELSE [state |-> "done", connected |-> c.connected,
                 log |-> c.log \o <<Ev("client.loop", "")>> \o push_publishes(th, gas),
                 tem_hum |-> th, ch2o |-> gas]

\* outcomes client.connect can have: no handshake succeeds without a link
Handshakes(wifiUp) == IF wifiUp THEN BOOLEAN ELSE {FALSE}

\* the history of failed handshakes after a call of connect_mqtt with log lg
HsAfter(lg, base) ==
  IF Count(lg, Ev("client.connect", "fail")) > 0 THEN base
  ELSE IF Count(lg, Ev("client.connect", "ok")) > 0 THEN NoFail
  ELSE hsFailBase

----------------------------------------------------------------------------
(* WebSocket protocol handler *)

\* a JSON value: kind k, string s, number n (tenths for a float)
JNull == [k |-> "null", s |-> "", n |-> 0]

JStr(x) == [k |-> "str", s |-> x, n |-> 0]

JInt(x) == [k |-> "int", s |-> "", n |-> x]

JFloat(tenths) == [k |-> "float", s |-> "", n |-> tenths]

\* doc[key] | "": the string, or the default for a missing or non-string member
OrEmpty(v) == IF v.k = "str" THEN v.s ELSE ""

\* JsonVariant::as<int>() of ArduinoJson 6: integers as they are, floats
\* truncated toward zero, 0 for null and for a string that is not a number
as_int(v) ==
  IF v.k = "int" THEN v.n
  ELSE IF v.k = "float"
    THEN (IF v.n >= 0 THEN v.n \div 10 ELSE -((-v.n) \div 10))
    ELSE 0

\* variant: the result of strcmp is used as if it were a truth value
from_trusted_inverted(v) == OrEmpty(v) # "AI_server"

\* strcmp(from, "AI_server") == 0
from_trusted(v) == OrEmpty(v) = "AI_server"

\* number of payload bytes that are left before the terminator the handler writes
TruncatedLen(rv, len) ==
  IF rv \in {"part_000", "main_cpp"}
    THEN (IF len < 512 THEN len ELSE 512)
    ELSE (IF len < 255 THEN len ELSE 254)

\* variant: the outcome of deserializeJson is not looked at
ParseOk_lenient(rv, ev) == TRUE

\* deserializeJson succeeds iff the text is JSON and the document ends before the terminator
ParseOk(rv, ev) == ev.json /\ ev.jsonLen <= TruncatedLen(rv, ev.len)

NoResponse ==
  [client |-> 0, from |-> "", to |-> "", id |-> JNull, type |-> "",
   temperature |-> NaNf, humidity |-> NaNf, success |-> FALSE, ppb |-> 0,
   mgm3 |-> Flt(0, 0)]

\* the id member of the response
response_id(rv, id) == IF rv = "Esp32_ino" THEN JInt(as_int(id)) ELSE id

\* variant: the result of malloc is not looked at
BufferOk_unchecked(rv, ev) == TRUE

\* ws.text is reached unless the response buffer could not be allocated
BufferOk(rv, ev) == rv \in {"part_000", "main_cpp"} \/ ev.mallocOk

\* variant: the response is passed to ws.textAll
ws_text_all(id, resp) == <<[resp EXCEPT !.client = 1], [resp EXCEPT !.client = 2]>>

\* variant: the response is sent only while the WiFi link is reported Connected
ws_text_when_linked(id, resp) ==
  IF wifi = "Connected" THEN <<[resp EXCEPT !.client = id]>> ELSE <<>>

\* instance->ws.text(client->id(), output): one text frame to the connection id
ws_text(id, resp) == <<[resp EXCEPT !.client = id]>>

\* doc_resp of a humidity_temperature request
humidity_temperature_response(rv, ev, th) ==
  [NoResponse EXCEPT !.from = "esp32_sensors", !.to = "AI_server",
     !.id = response_id(rv, ev.id), !.type = "humidity_temperature",
     !.temperature = th[1], !.humidity = th[2]]

\* variant: success is reported whatever the read returned
ch2o_response_optimistic(ev, gas) ==
  [NoResponse EXCEPT !.from = "esp32_sensors", !.to = "AI_server",
     !.id = ev.id, !.type = "ch2o", !.success = TRUE, !.ppb = gas.ppb,
     !.mgm3 = gas.mgm3]

\* doc_resp of a ch2o request: res is the one result of instance->ze08->read()
ch2o_response(ev, gas) ==
  [NoResponse EXCEPT !.from = "esp32_sensors", !.to = "AI_server",
     !.id = ev.id, !.type = "ch2o", !.success = gas.first, !.ppb = gas.ppb,
     !.mgm3 = gas.mgm3]

\* handle_websocket_message: inst is instance != nullptr, ev the frame and its
\* connection, th and gas the readings the facades would return
handle_websocket_message(rv, inst, ev, th, gas) ==
  IF ~inst \/ ev.client = 0 THEN [sent |-> <<>>, calls |-> <<>>]
  ELSE IF ~ev.canSend THEN [sent |-> <<>>, calls |-> <<>>]
  ELSE IF ~(ev.final /\ ev.index = 0 /\ ev.lenMatch /\ ev.opcode = "WS_TEXT")
    THEN [sent |-> <<>>, calls |-> <<>>]
  ELSE IF ~ParseOk(rv, ev) THEN [sent |-> <<>>, calls |-> <<>>]
  ELSE IF ~from_trusted(ev.from) THEN [sent |-> <<>>, calls |-> <<>>]
  ELSE IF OrEmpty(ev.rtype) = "humidity_temperature"
    THEN [sent |-> IF BufferOk(rv, ev)
                     THEN ws_text(ev.client, humidity_temperature_response(rv, ev, th))
                     ELSE <<>>,
          calls |-> <<"get_temperature_humidity">>]
  ELSE IF OrEmpty(ev.rtype) = "ch2o" /\ rv # "Esp32_ino"
    THEN [sent |-> IF BufferOk(rv, ev)
                     THEN ws_text(ev.client, ch2o_response(ev, gas))
                     ELSE <<>>,
          calls |-> <<"ze08.read">>]
  ELSE [sent |-> <<>>, calls |-> <<>>]

\* variant: the dispatcher hands every data frame on as if its connection were writable
event_handler_static_unchecked(rv, inst, ev, th, gas) ==
  IF ev.client = 0 THEN [sent |-> <<>>, calls |-> <<>>]
  ELSE IF ev.type = "WS_EVT_DATA"
    THEN handle_websocket_message(rv, inst, [ev EXCEPT !.canSend = TRUE], th, gas)
  ELSE IF ev.type = "WS_EVT_ERROR" /\ ev.canSend
    THEN [sent |-> <<>>, calls |-> <<"close">>]
    ELSE [sent |-> <<>>, calls |-> <<>>]

\* variant: the dispatcher hands a data frame on as if the manager were already published
event_handler_static_published(rv, inst, ev, th, gas) ==
  IF ev.client = 0 THEN [sent |-> <<>>, calls |-> <<>>]
  ELSE IF ev.type = "WS_EVT_DATA" THEN handle_websocket_message(rv, TRUE, ev, th, gas)
  ELSE IF ev.type = "WS_EVT_ERROR" /\ ev.canSend
    THEN [sent |-> <<>>, calls |-> <<"close">>]
    ELSE [sent |-> <<>>, calls |-> <<>>]

\* event_handler_static
event_handler_static(rv, inst, ev, th, gas) ==
  IF ev.client = 0 THEN [sent |-> <<>>, calls |-> <<>>]
  ELSE IF ev.type = "WS_EVT_DATA" THEN handle_websocket_message(rv, inst, ev, th, gas)
  ELSE IF ev.type = "WS_EVT_ERROR" /\ ev.canSend
    THEN [sent |-> <<>>, calls |-> <<"close">>]
    ELSE [sent |-> <<>>, calls |-> <<>>]

\* a well-formed request delivered as one final text frame on a writable connection
Request(c, from, type, id) ==
  [type |-> "WS_EVT_DATA", client |-> c, canSend |-> TRUE, final |-> TRUE, index |-> 0,
   lenMatch |-> TRUE, opcode |-> "WS_TEXT", len |-> 60, json |-> TRUE, jsonLen |-> 60,
   from |-> from, rtype |-> type, id |-> id, mallocOk |-> TRUE]

NoEvent == [Request(0, JNull, JNull, JNull) EXCEPT !.type = "none"]

Senders == {JStr("AI_server"), JStr("ai_server"), JNull, JInt(1)}

Types == {JStr("humidity_temperature"), JStr("ch2o"), JStr("pir"), JNull}

Ids == {JInt(7), JInt(-3), JFloat(15), JStr("abc"), JNull}

Clients == {1, 2}

Requests == {Request(1, f, t, i) : f \in Senders, t \in Types, i \in Ids}

BaseRequests ==
  {Request(1, JStr("AI_server"), t, JInt(7)) : t \in {JStr("humidity_temperature"), JStr("ch2o")}}

\* the events the transport delivers
Events ==
  Requests
  \cup {[r EXCEPT !.client = c] : r \in BaseRequests, c \in Clients}
  \cup {[r EXCEPT !.canSend = FALSE] : r \in BaseRequests}
  \cup {[r EXCEPT !.mallocOk = FALSE] : r \in BaseRequests}
  \cup {[r EXCEPT !.client = 0] : r \in BaseRequests}
  \cup {[r EXCEPT !.final = FALSE] : r \in BaseRequests}
  \cup {[r EXCEPT !.index = 1] : r \in BaseRequests}
  \cup {[r EXCEPT !.lenMatch = FALSE] : r \in BaseRequests}
  \cup {[r EXCEPT !.opcode = "WS_BINARY"] : r \in BaseRequests}
  \cup {[r EXCEPT !.json = FALSE] : r \in BaseRequests}
  \cup {[r EXCEPT !.len = l, !.jsonLen = l] : r \in BaseRequests, l \in {254, 255, 511, 512, 600}}
  \cup {[r EXCEPT !.type = t, !.canSend = cs] : r \in BaseRequests, cs \in BOOLEAN,
          t \in {"WS_EVT_CONNECT", "WS_EVT_DISCONNECT", "WS_EVT_PONG", "WS_EVT_ERROR"}}

\* what the facades return to a read made by the handler
WsReadings ==
  { [th |-> <<Flt(11796480, 4), Flt(10485760, 5)>>, frame |-> [ok |-> TRUE, ppb |-> 120]],
    [th |-> <<Flt(11796480, 4), NaNf>>, frame |-> [ok |-> FALSE, ppb |-> 0]],
    [th |-> <<NaNf, NaNf>>, frame |-> [ok |-> TRUE, ppb |-> 0]] }

\* the server is listening once server.begin() has been called
Listening == pc \notin {"boot", "setup_wait"}

\* no facade was read
NoReading == [th |-> NoDht, frame |-> [ok |-> FALSE, ppb |-> 0]]

\* the facade the handler reads for the event ev, "none" if it returns before a read
ReadsFacade(rv, inst, ev) ==
  LET c == event_handler_static(rv, inst, ev, NoDht, NoGas).calls IN
  IF c = <<"get_temperature_humidity">> THEN "dht22"
  ELSE IF c = <<"ze08.read">> THEN "ze08"
  ELSE "none"

\* the transport delivers one event to event_handler_static, which runs to its end
WsEvent ==
  /\ Listening
  /\ wsReading = "none"
  /\ \E ev \in Events, rd \in WsReadings :
       LET r == event_handler_static(rev, instance, ev, rd.th, ze08_read(rd.frame)) IN
       /\ wsIn' = ev
       /\ wsSent' = r.sent
       /\ wsCalls' = r.calls
       /\ wsRd' = IF ReadsFacade(rev, instance, ev) = "none" THEN NoReading ELSE rd
       /\ wsReading' = "none"
  /\ UNCHANGED <<rev, loopVars, wsHistory, timerVars, facadeVars, published>>

----------------------------------------------------------------------------
(* The handler as a task of its own.  ws.onEvent registers event_handler_static *)
(* with the AsyncTCP transport, which calls it from its service task, one event *)
(* after the other, while loop() runs in the Arduino task.                      *)

\* the frames a client sends while the control loop runs
TaskEvents ==
  { Request(1, JStr("AI_server"), JStr("humidity_temperature"), JInt(7)),
    Request(1, JStr("AI_server"), JStr("ch2o"), JInt(7)) }

TaskReadings == { [th |-> <<Flt(11796480, 4), Flt(10485760, 5)>>, frame |-> [ok |-> TRUE, ppb |-> 120]] }

\* the frames of two clients, for the order of the responses
OrderEvents ==
  {Request(c, JStr("AI_server"), t, JInt(7)) :
     c \in Clients, t \in {JStr("humidity_temperature"), JStr("ch2o")}}
  \cup { Request(1, JStr("AI_server"), JStr("ch2o"), JInt(-3)),
         Request(2, JStr("ai_server"), JStr("ch2o"), JInt(7)),
         [Request(2, JStr("AI_server"), JStr("ch2o"), JInt(-3)) EXCEPT !.canSend = FALSE] }

\* the handler is entered with an event of evs and runs up to its facade read,
\* or to its end if it returns before a read
WsDeliverOn(evs) ==
  /\ Listening
  /\ wsReading = "none"
  /\ \E ev \in evs :
       LET r == event_handler_static(rev, instance, ev, NoDht, NoGas)
           f == ReadsFacade(rev, instance, ev) IN
       /\ wsIn' = ev
       /\ wsReading' = f
       /\ wsSent' = IF f = "none" THEN r.sent ELSE <<>>
       /\ wsCalls' = IF f = "none" THEN r.calls ELSE <<>>
       /\ wsRd' = NoReading

\* the facade read returns one of rds and the handler runs to its end
WsFinishOn(rds) ==
  /\ wsReading # "none"
  /\ \E rd \in rds :
       LET r == event_handler_static(rev, instance, wsIn, rd.th, ze08_read(rd.frame)) IN
       /\ wsSent' = r.sent
       /\ wsCalls' = r.calls
       /\ wsRd' = rd
  /\ wsReading' = "none"
  /\ wsIn' = wsIn

WsDeliver ==
  /\ WsDeliverOn(TaskEvents)
  /\ UNCHANGED <<rev, loopVars, wsHistory, timerVars, facadeVars, published>>

WsFinish ==
  /\ WsFinishOn(TaskReadings)
  /\ UNCHANGED <<rev, loopVars, wsHistory, timerVars, facadeVars, published>>

\* the same two steps with the delivered frames and the sent frames recorded
WsDeliverLogged ==
  /\ Len(wsDelivered) < MaxFrames
  /\ WsDeliverOn(OrderEvents)
  /\ wsDelivered' = Append(wsDelivered, [ev |-> wsIn', inst |-> instance])
  /\ wsOut' = wsOut \o wsSent'
  /\ UNCHANGED <<rev, loopVars, timerVars, facadeVars, published>>

WsFinishLogged ==
  /\ WsFinishOn(TaskReadings)
  /\ wsOut' = wsOut \o wsSent'
  /\ UNCHANGED <<rev, loopVars, wsDelivered, timerVars, facadeVars, published>>

----------------------------------------------------------------------------
(* setup() *)

\* the globals and the members of the manager after construction
InitRest ==
  /\ wifi = "Disconnected"
  /\ linkUpAt = Never
  /\ mqttConnected = FALSE
  /\ lastUpdate = ULONG_MAX
  /\ lastRestartTime = 0
  /\ startAttemptTime = 0
  /\ caller = "none"
  /\ instance = FALSE
  /\ tickLog = <<>>
  /\ pushState = "none"
  /\ pushLate = FALSE
  /\ tem_hum = NoDht
  /\ ch2o = NoGas
  /\ lastPushAt = NoPush
  /\ hsFailBase = NoFail
  /\ wsIn = NoEvent
  /\ wsSent = <<>>
  /\ wsCalls = <<>>
  /\ wsRd = NoReading
  /\ wsReading = "none"
  /\ wsDelivered = <<>>
  /\ wsOut = <<>>
  /\ timerCalls = 0
  /\ timerRet = FALSE
  /\ timerMs = 0
  /\ timerPrev = ULONG_MAX
  /\ timerElapsed = 0
  /\ timerSince = 0
  /\ wdtFedAt = Never
  /\ is_active_mode = TRUE
  /\ wzCalls = <<>>
  /\ gasOp = "none"
  /\ gasFrame = [ok |-> FALSE, ppb |-> 0]
  /\ gasRet = NoGas
  /\ gasCount = 0
  /\ statics = NoStatics
  /\ published = NoStrings

Init ==
  /\ rev \in Revisions
  /\ pc = "boot"
  /\ now = 0
  /\ InitRest

\* WiFi.begin(ssid, password): the environment fixes when the link comes up
WiFiBegin(t) ==
  \E lat \in LinkLatency \cup {Never} :
    LET upAt == IF lat = Never THEN Never ELSE t + lat IN
    /\ wifi' = WiFiAt("Connecting", upAt, t)
    /\ linkUpAt' = UpAtAfter("Connecting", upAt, t)

\* setup() up to WiFi.begin in Websocket_manager::setup
Boot ==
  /\ pc = "boot"
  /\ pc' = "setup_wait"
  /\ wdtFedAt' = IF HasSupervisor(rev) THEN now ELSE Never
  /\ lastRestartTime' = now
  /\ WiFiBegin(now)
  /\ instance' = (rev \in {"part_000b", "Esp32_ino"})
  /\ tickLog' = <<Ev("WiFi.begin", "")>>
  /\ UNCHANGED <<rev, now, mqttConnected, lastUpdate, startAttemptTime, caller,
                 pushState, tem_hum, ch2o, lastPushAt, hsFailBase, wsVars, wsHistory, timerVars, facadeVars, published, pushLate>>

\* while (WiFi.status() != WL_CONNECTED) delay(500); then server.begin()
SetupPoll ==
  /\ pc = "setup_wait"
  /\ IF ~isWiFiConnected
       THEN /\ Delay(WIFI_POLL_MS)
            /\ UNCHANGED <<pc, tickLog>>
       ELSE /\ pc' = "setup_server"
            /\ tickLog' = Append(tickLog, Ev("server.begin", ""))
            /\ UNCHANGED <<now, wifi, linkUpAt>>
  /\ UNCHANGED <<rev, mqttConnected, lastUpdate, lastRestartTime, wdtFedAt, startAttemptTime,
                 caller, instance, pushState, tem_hum, ch2o, lastPushAt, hsFailBase,
                 wsVars, wsHistory, timerVars, facadeVars, published, pushLate>>

\* connect_mqtt() at the end of Websocket_manager::setup, then instance = &instance_
SetupFinish ==
  /\ pc = "setup_server"
  /\ pc' = "idle"
  /\ instance' = TRUE
  /\ IF HasMqtt(rev)
       THEN \E hsOk \in Handshakes(isWiFiConnected) :
              LET c == connect_mqtt(rev, mqttConnected, isWiFiConnected, hsOk) IN
              /\ mqttConnected' = c.connected
              /\ tickLog' = tickLog \o c.log
              /\ hsFailBase' = HsAfter(c.log, now)
       ELSE UNCHANGED <<mqttConnected, tickLog, hsFailBase>>
  /\ UNCHANGED <<rev, now, wifi, linkUpAt, lastUpdate, lastRestartTime, wdtFedAt,
                 startAttemptTime, caller, pushState, tem_hum, ch2o, lastPushAt,
                 wsVars, wsHistory, timerVars, facadeVars, published, pushLate>>

----------------------------------------------------------------------------
(* loop() *)

\* variant: the watchdog is reset at the end of the tick
loop_head_reset_last(rv) ==
  <<Ev("cleanupClients", "")>>
  \o (IF HasMqtt(rv) THEN <<Ev("mqtt_push", "")>> ELSE <<>>)
  \o (IF HasSupervisor(rv) THEN <<Ev("esp_task_wdt_reset", "")>> ELSE <<>>)

\* the calls that open a tick: esp_task_wdt_reset(), ws.cleanupClients(), mqtt_push()
loop_head(rv) ==
  (IF HasSupervisor(rv) THEN <<Ev("esp_task_wdt_reset", "")>> ELSE <<>>)
  \o <<Ev("cleanupClients", "")>>
  \o (IF HasMqtt(rv) THEN <<Ev("mqtt_push", "")>> ELSE <<>>)

\* esp_task_wdt_reset(); cleanupClients(); mqtt_push() up to the timer check
LoopTop ==
  /\ pc = "idle"
  /\ LET r == IF HasMqtt(rev)
                THEN is_expired_when_delay(lastUpdate, now, PUSH_INTERVAL_MS)
                ELSE [ret |-> FALSE, lastUpdate |-> lastUpdate]
         head == loop_head(rev)
     IN /\ lastUpdate' = r.lastUpdate
        /\ wdtFedAt' = IF HasSupervisor(rev) THEN now ELSE Never
        /\ IF r.ret
             THEN /\ pc' = "push"
                  /\ pushState' = "started"
                  /\ pushLate' = (USub(now, lastUpdate) >= 2 * PUSH_INTERVAL_MS)
                  /\ lastPushAt' = now
                  /\ tickLog' = head \o <<Ev("mqtt_push_imple",
                                                IF lastPushAt = NoPush THEN "first" ELSE "")>>
             ELSE /\ pc' = IF HasSupervisor(rev) THEN "health" ELSE "tick_end"
                  /\ tickLog' = head
                  /\ UNCHANGED <<pushState, pushLate, lastPushAt>>
  /\ UNCHANGED <<rev, now, wifi, linkUpAt, mqttConnected, lastRestartTime,
                 startAttemptTime, caller, instance, tem_hum, ch2o, hsFailBase,
                 wsVars, wsHistory, timerVars, facadeVars, published>>

\* variant: an association that timed out is requested a second time at once
ReconnectEntry_again(who) ==
  \E lat \in LinkLatency \cup {Never} :
    LET start == now + WIFI_DISCONNECT_DELAY_MS
        upAt == IF lat = Never THEN Never ELSE start + lat
    IN \E t \in {reconnect_poll("Connecting", upAt, start, start)} :
       /\ t <= Horizon(now)
       /\ now' = t
       /\ wifi' = WiFiAt("Connecting", upAt, t)
       /\ linkUpAt' = UpAtAfter("Connecting", upAt, t)
       /\ startAttemptTime' = start
       /\ caller' = who
       /\ pc' = "reconnect_ret"
       /\ tickLog' = tickLog \o <<Ev("WiFi.disconnect", ""), Ev("WiFi.begin", "")>>
                              \o (IF wifi' = "Connected" THEN <<>>
                                  ELSE <<Ev("WiFi.disconnect", ""), Ev("WiFi.begin", "")>>)

\* reconnectWiFi() when the link is not connected: WiFi.disconnect(), delay(1000),
\* WiFi.begin() and the polling loop, up to the exit of the loop
ReconnectEntry(who) ==
  \E lat \in LinkLatency \cup {Never} :
    LET start == now + WIFI_DISCONNECT_DELAY_MS
        upAt == IF lat = Never THEN Never ELSE start + lat
    IN \E t \in {reconnect_poll("Connecting", upAt, start, start)} :
       /\ t <= Horizon(now)
       /\ now' = t
       /\ wifi' = WiFiAt("Connecting", upAt, t)
       /\ linkUpAt' = UpAtAfter("Connecting", upAt, t)
       /\ startAttemptTime' = start
       /\ caller' = who
       /\ pc' = "reconnect_ret"
       /\ tickLog' = tickLog \o <<Ev("WiFi.disconnect", ""), Ev("WiFi.begin", "")>>

\* mqtt_push_imple once reconnectWiFi has returned (or is not called)
PushSession ==
  \E hsOk \in Handshakes(isWiFiConnected), t \in DhtTemperatures,
     h \in DhtHumidities, f \in GasFrames :
    LET r == mqtt_push_imple(rev, isWiFiConnected, mqttConnected, hsOk,
                             <<t, h>>, ze08_read(f)) IN
    /\ mqttConnected' = r.connected
    /\ tickLog' = tickLog \o r.log
    /\ pushState' = r.state
    /\ tem_hum' = r.tem_hum
    /\ ch2o' = r.ch2o
    /\ hsFailBase' = HsAfter(r.log, lastUpdate)

\* variant: an aborted push puts the timer back to its state after construction
Push_rearm ==
  /\ pc = "push"
  /\ IF HasSupervisor(rev) /\ reconnect_needed(wifi)
       THEN /\ ReconnectEntry("push")
            /\ UNCHANGED <<mqttConnected, pushState, tem_hum, ch2o, hsFailBase, lastUpdate>>
       ELSE /\ PushSession
            /\ pc' = IF HasSupervisor(rev) THEN "health" ELSE "tick_end"
            /\ lastUpdate' = IF pushState' = "aborted_mqtt" THEN ULONG_MAX ELSE lastUpdate
            /\ UNCHANGED <<now, wifi, linkUpAt, startAttemptTime, caller>>
  /\ UNCHANGED <<rev, lastRestartTime, wdtFedAt, instance, lastPushAt, wsVars, wsHistory,
                 timerVars, facadeVars, published, pushLate>>

\* mqtt_push_imple(): reconnectWiFi() first in part_000
Push ==
  /\ pc = "push"
  /\ IF HasSupervisor(rev) /\ reconnect_needed(wifi)
       THEN /\ ReconnectEntry("push")
            /\ UNCHANGED <<mqttConnected, pushState, tem_hum, ch2o, hsFailBase>>
       ELSE /\ PushSession
            /\ pc' = IF HasSupervisor(rev) THEN "health" ELSE "tick_end"
            /\ UNCHANGED <<now, wifi, linkUpAt, startAttemptTime, caller>>
  /\ UNCHANGED <<rev, lastUpdate, lastRestartTime, wdtFedAt, instance, lastPushAt, wsVars, wsHistory, timerVars, facadeVars, published, pushLate>>

\* the final status check of reconnectWiFi and what its caller does with the result
ReconnectReturn ==
  /\ pc = "reconnect_ret"
  /\ caller' = "none"
  /\ startAttemptTime' = 0
  /\ IF caller = "push"
       THEN /\ pc' = "health"
            /\ PushSession
            /\ UNCHANGED <<now, wifi, linkUpAt>>
       ELSE /\ pc' = "tick_end"
            /\ IF isWiFiConnected
                 THEN UNCHANGED <<now, wifi, linkUpAt>>
                 ELSE Delay(WIFI_FAIL_DELAY_MS)
            /\ UNCHANGED <<mqttConnected, tickLog, pushState, tem_hum, ch2o, hsFailBase>>
  /\ UNCHANGED <<rev, lastUpdate, lastRestartTime, wdtFedAt, instance, lastPushAt, wsVars, wsHistory, timerVars, facadeVars, published, pushLate>>

\* if (!isWiFiConnected()) reconnectWiFi() in loop()
Health ==
  /\ pc = "health"
  /\ IF ~isWiFiConnected /\ reconnect_needed(wifi)
       THEN ReconnectEntry("loop")
       ELSE /\ pc' = "tick_end"
            /\ UNCHANGED <<now, wifi, linkUpAt, startAttemptTime, caller, tickLog>>
  /\ UNCHANGED <<rev, mqttConnected, lastUpdate, lastRestartTime, wdtFedAt, instance,
                 pushState, tem_hum, ch2o, lastPushAt, hsFailBase, wsVars, wsHistory, timerVars, facadeVars, published, pushLate>>

\* variant: the restart waits until the interval is exceeded
restart_due_strict(t, last) == USub(t, last) > RESTART_INTERVAL

\* if (millis() - lastRestartTime >= RESTART_INTERVAL)
restart_due(t, last) == USub(t, last) >= RESTART_INTERVAL

\* the restart check, when it finds nothing to do, and delay(10) that end a tick
TickEnd ==
  /\ pc = "tick_end"
  /\ ~(HasSupervisor(rev) /\ restart_due(now, lastRestartTime))
  /\ \E d \in TickElapsed : Delay(d)
  /\ pc' = "idle"
  /\ tickLog' = <<>>
  /\ wdtFedAt' = Never
  /\ pushLate' = FALSE
  /\ tem_hum' = NoDht
  /\ ch2o' = NoGas
  /\ UNCHANGED <<rev, mqttConnected, lastUpdate, lastRestartTime, startAttemptTime,
                 caller, instance, pushState, lastPushAt, hsFailBase, wsVars, wsHistory, timerVars, facadeVars, published>>

\* the restart check when the interval has passed: restartESP32(), that is
\* delay(1000) and ESP.restart(); the sketch starts again from its first line
Restart ==
  /\ pc = "tick_end"
  /\ HasSupervisor(rev)
  /\ restart_due(now, lastRestartTime)
  /\ pc' = "boot"
  /\ now' = 0
  /\ tickLog' = <<Ev("ESP.restart", wifi)>>
  /\ wifi' = "Disconnected"
  /\ linkUpAt' = Never
  /\ mqttConnected' = FALSE
  /\ lastUpdate' = ULONG_MAX
  /\ lastRestartTime' = 0
  /\ startAttemptTime' = 0
  /\ caller' = "none"
  /\ instance' = FALSE
  /\ pushState' = "none"
  /\ pushLate' = FALSE
  /\ tem_hum' = NoDht
  /\ ch2o' = NoGas
  /\ lastPushAt' = NoPush
  /\ hsFailBase' = NoFail
  /\ wdtFedAt' = Never
  /\ wsIn' = NoEvent
  /\ wsSent' = <<>>
  /\ wsCalls' = <<>>
  /\ wsRd' = NoReading
  /\ wsReading' = "none"
  /\ is_active_mode' = TRUE
  /\ UNCHANGED <<rev, wsHistory, timerVars, wzCalls, gasOp, gasFrame, gasRet, gasCount,
                 statics, published>>

----------------------------------------------------------------------------
(* Environment *)

\* the access point goes away
LinkLost ==
  /\ wifi = "Connected"
  /\ wifi' = "Disconnected"
  /\ UNCHANGED <<rev, pc, now, linkUpAt, mqttConnected, lastUpdate, lastRestartTime, wdtFedAt,
                 startAttemptTime, caller, instance, tickLog, pushState, tem_hum,
                 ch2o, lastPushAt, hsFailBase, wsVars, wsHistory, timerVars, facadeVars, published, pushLate>>

\* the broker session ends
SessionLost ==
  /\ mqttConnected
  /\ mqttConnected' = FALSE
  /\ UNCHANGED <<rev, pc, now, wifi, linkUpAt, lastUpdate, lastRestartTime, wdtFedAt,
                 startAttemptTime, caller, instance, tickLog, pushState, tem_hum,
                 ch2o, lastPushAt, hsFailBase, wsVars, wsHistory, timerVars, facadeVars, published, pushLate>>

Next ==
  \/ Boot
  \/ SetupPoll
  \/ SetupFinish
  \/ LoopTop
  \/ Push
  \/ ReconnectReturn
  \/ Health
  \/ TickEnd
  \/ LinkLost
  \/ SessionLost

Spec == Init /\ [][Next]_vars

\* the protocol handler on its own: construction, then events from the transport
NextWs ==
  \/ Boot
  \/ SetupPoll
  \/ SetupFinish
  \/ WsEvent

SpecWs == Init /\ [][NextWs]_vars

\* the control loop and the handler task side by side
NextTasks ==
  \/ Next
  \/ WsDeliver
  \/ WsFinish

SpecTasks == Init /\ [][NextTasks]_vars

\* the handler task with the frames of two clients
NextOrder ==
  \/ Boot
  \/ SetupPoll
  \/ SetupFinish
  \/ WsDeliverLogged
  \/ WsFinishLogged

SpecOrder == Init /\ [][NextOrder]_vars

----------------------------------------------------------------------------
(* The end of the restart interval *)

\* time left to the end of the restart interval where a behaviour is taken up
RestartLead == 10500

\* the first revision at the top of a tick, at the clock reading t of a run: the
\* timer is armed, the last push was made half an interval ago
InitMidRun(t) ==
  /\ rev = "part_000"
  /\ pc = "idle"
  /\ now = t
  /\ wifi \in {"Connected", "Disconnected"}
  /\ linkUpAt = Never
  /\ mqttConnected \in BOOLEAN
  /\ lastUpdate = now - 3500
  /\ lastRestartTime = 0
  /\ startAttemptTime = 0
  /\ caller = "none"
  /\ instance = TRUE
  /\ tickLog = <<>>
  /\ pushState = "done"
  /\ pushLate = FALSE
  /\ tem_hum = NoDht
  /\ ch2o = NoGas
  /\ lastPushAt = now - 3500
  /\ hsFailBase = NoFail
  /\ wdtFedAt = Never
  /\ wsIn = NoEvent
  /\ wsSent = <<>>
  /\ wsCalls = <<>>
  /\ wsRd = NoReading
  /\ wsReading = "none"
  /\ wsDelivered = <<>>
  /\ wsOut = <<>>
  /\ timerCalls = 0
  /\ timerRet = FALSE
  /\ timerMs = 0
  /\ timerPrev = ULONG_MAX
  /\ timerElapsed = 0
  /\ timerSince = 0
  /\ is_active_mode = TRUE
  /\ wzCalls = <<>>
  /\ gasOp = "none"
  /\ gasFrame = [ok |-> FALSE, ppb |-> 0]
  /\ gasRet = NoGas
  /\ gasCount = 0
  /\ statics = NoStatics
  /\ published = NoStrings

\* a run taken up RestartLead before the sketch has run for RESTART_INTERVAL
InitRestart == InitMidRun(RESTART_INTERVAL - RestartLead)

NextRestart ==
  \/ Next
  \/ Restart

SpecRestart == InitRestart /\ [][NextRestart]_vars

----------------------------------------------------------------------------
(* NonblockingDelayer on its own *)

\* millis() when the timer is constructed
TimerClocks == {0, ULONG_MAX - 7000, ULONG_MAX - 1, ULONG_MAX}

\* time between two calls
TimerAdvance == {0, 1, 6999, 7000, 7001}

\* the argument ms
TimerIntervals == {0, 1, 7000}

InitTimer ==
  /\ rev = "part_000"
  /\ pc = "timer"
  /\ now \in TimerClocks
  /\ InitRest

\* one call of is_expired_when_delay(ms), d ms after the call before it
TimerCall ==
  /\ pc = "timer"
  /\ timerCalls < MaxTimerCalls
  /\ \E d \in TimerAdvance, ms \in TimerIntervals :
       LET t == (now + d) % (ULONG_MAX + 1)
           r == is_expired_when_delay(lastUpdate, t, ms)
       IN /\ now' = t
          /\ lastUpdate' = r.lastUpdate
          /\ timerCalls' = timerCalls + 1
          /\ timerRet' = r.ret
          /\ timerMs' = ms
          /\ timerPrev' = lastUpdate
          /\ timerElapsed' = IF timerCalls = 0 THEN 0 ELSE timerSince + d
          /\ timerSince' = IF lastUpdate = ULONG_MAX \/ r.ret
                              THEN 0 ELSE timerSince + d
  /\ UNCHANGED <<rev, pc, wifi, linkUpAt, mqttConnected, lastRestartTime, wdtFedAt,
                 startAttemptTime, caller, instance, tickLog, pushState, pushLate,
                 tem_hum, ch2o, lastPushAt, hsFailBase, wsVars, wsHistory,
                 facadeVars, published>>

NextTimer == TimerCall

SpecTimer == InitTimer /\ [][NextTimer]_vars

----------------------------------------------------------------------------
(* The gas facade on its own *)

\* number of operations called on the facade
MaxGasCalls == 4

\* what the frame read of the driver reports: whether a frame was read, and the
\* HCHO_PPB that hcho_data holds afterwards
FacadeFrames ==
  {[ok |-> FALSE, ppb |-> 0], [ok |-> FALSE, ppb |-> 120]}
  \cup {[ok |-> TRUE, ppb |-> p] : p \in {0, 1, 120, 799, MaxPpb}}

InitGas ==
  /\ rev = "part_000"
  /\ pc = "gas"
  /\ now = 0
  /\ InitRest

\* activeMode()
GasActiveMode ==
  /\ pc = "gas"
  /\ gasCount < MaxGasCalls
  /\ is_active_mode' = TRUE
  /\ wzCalls' = <<"activeMode">>
  /\ gasOp' = "activeMode"
  /\ gasCount' = gasCount + 1
  /\ UNCHANGED <<rev, loopVars, wsVars, wsHistory, timerVars, gasFrame, gasRet, statics,
                 published>>

\* passiveMode()
GasPassiveMode ==
  /\ pc = "gas"
  /\ gasCount < MaxGasCalls
  /\ is_active_mode' = FALSE
  /\ wzCalls' = <<"passiveMode">>
  /\ gasOp' = "passiveMode"
  /\ gasCount' = gasCount + 1
  /\ UNCHANGED <<rev, loopVars, wsVars, wsHistory, timerVars, gasFrame, gasRet, statics,
                 published>>

\* read()
GasRead ==
  /\ pc = "gas"
  /\ gasCount < MaxGasCalls
  /\ \E f \in FacadeFrames :
       /\ wzCalls' = ze08_calls(is_active_mode, "read")
       /\ gasFrame' = f
       /\ gasRet' = ze08_read(f)
  /\ gasOp' = "read"
  /\ gasCount' = gasCount + 1
  /\ UNCHANGED <<rev, loopVars, wsVars, wsHistory, timerVars, is_active_mode, statics,
                 published>>

\* readUntil(timeout): the driver reports no frame when the timeout has passed
GasReadUntil ==
  /\ pc = "gas"
  /\ gasCount < MaxGasCalls
  /\ \E f \in FacadeFrames :
       /\ wzCalls' = ze08_calls(is_active_mode, "readUntil")
       /\ gasFrame' = f
       /\ gasRet' = ze08_readUntil(f)
  /\ gasOp' = "readUntil"
  /\ gasCount' = gasCount + 1
  /\ UNCHANGED <<rev, loopVars, wsVars, wsHistory, timerVars, is_active_mode, statics,
                 published>>

NextGas ==
  \/ GasActiveMode
  \/ GasPassiveMode
  \/ GasRead
  \/ GasReadUntil

SpecGas == InitGas /\ [][NextGas]_vars

----------------------------------------------------------------------------
(* The singletons on their own: getInstance called any number of times *)

MaxGetCalls == 4

\* pin arguments
Pins == {4, 5}

\* ssid arguments
Ssids == {"home", "guest"}

InitSingletons ==
  /\ rev = "part_000"
  /\ pc = "singletons"
  /\ now = 0
  /\ InitRest

\* Sensor_DHT22::getInstance(pin)
GetDHT22 ==
  /\ pc = "singletons"
  /\ statics.calls < MaxGetCalls
  /\ \E pin \in Pins :
       statics' = [Sensor_DHT22_getInstance(statics, pin) EXCEPT !.calls = @ + 1]
  /\ UNCHANGED <<rev, loopVars, wsVars, wsHistory, timerVars, is_active_mode, wzCalls,
                 gasOp, gasFrame, gasRet, gasCount, published>>

\* Sensor_ZE08_CH2O::getInstance(activeMode)
GetZE08 ==
  /\ pc = "singletons"
  /\ statics.calls < MaxGetCalls
  /\ \E activeMode \in BOOLEAN :
       /\ statics' = [Sensor_ZE08_CH2O_getInstance(statics, activeMode) EXCEPT !.calls = @ + 1]
       /\ is_active_mode' = IF statics.ze08.made THEN is_active_mode ELSE activeMode
  /\ UNCHANGED <<rev, loopVars, wsVars, wsHistory, timerVars, wzCalls, gasOp, gasFrame,
                 gasRet, gasCount, published>>

\* Websocket_manager::getInstance(ssid, ..., pin_DHT22)
GetManager ==
  /\ pc = "singletons"
  /\ statics.calls < MaxGetCalls
  /\ \E ssid \in Ssids, pin \in Pins :
       statics' = [Websocket_manager_getInstance(statics, ssid, pin) EXCEPT !.calls = @ + 1]
  /\ is_active_mode' = IF statics.manager.made \/ statics.ze08.made THEN is_active_mode ELSE TRUE
  /\ UNCHANGED <<rev, loopVars, wsVars, wsHistory, timerVars, wzCalls, gasOp, gasFrame,
                 gasRet, gasCount, published>>

NextSingletons ==
  \/ GetDHT22
  \/ GetZE08
  \/ GetManager

SpecSingletons == InitSingletons /\ [][NextSingletons]_vars

----------------------------------------------------------------------------
(* The readings and the strings of one push on their own *)

\* floats the DHT22 facade can return: NaN, 0, 22.5, 22.125, 23.456, 0.1, 0.004,
\* -0.004, -5.5, -40, 80, 99.995 (the nearest float of each)
DhtSamples ==
  { NaNf, Flt(0, 0), Flt(11796480, 4), Flt(11599872, 4), Flt(12297699, 4),
    Flt(13421773, -4), Flt(8589935, -8), Flt(-8589935, -8), Flt(-11534336, 2),
    Flt(-10485760, 5), Flt(10485760, 6), Flt(13106545, 6) }

\* the readings of a push: every pair of DHT22 samples, every ppb of a frame
PublishInputs ==
  {[th |-> <<t, h>>, frame |-> [ok |-> FALSE, ppb |-> 0]] : t \in DhtSamples, h \in DhtSamples}
  \cup {[th |-> NoDht, frame |-> [ok |-> TRUE, ppb |-> p]] : p \in 0..MaxPpb}

InitPublish ==
  /\ rev = "part_000"
  /\ pc = "publish_read"
  /\ now = 0
  /\ InitRest

\* dht22->get_temperature_humidity() and ze08->read() of mqtt_push_imple
PublishRead ==
  /\ pc = "publish_read"
  /\ pc' = "publish_format"
  /\ \E in \in PublishInputs :
       /\ tem_hum' = in.th
       /\ ch2o' = ze08_read(in.frame)
  /\ UNCHANGED <<rev, now, wifi, linkUpAt, mqttConnected, lastUpdate, lastRestartTime,
                 startAttemptTime, caller, instance, tickLog, pushState, pushLate,
                 lastPushAt, hsFailBase, wdtFedAt, wsVars, wsHistory, timerVars,
                 facadeVars, published>>

\* the dtostrf calls of mqtt_push_imple
PublishFormat ==
  /\ pc = "publish_format"
  /\ pc' = "publish_done"
  /\ \E up \in BOOLEAN \X BOOLEAN \X BOOLEAN :
       published' = push_strings(tem_hum, ch2o, up)
  /\ UNCHANGED <<rev, now, wifi, linkUpAt, mqttConnected, lastUpdate, lastRestartTime,
                 startAttemptTime, caller, instance, tickLog, pushState, pushLate,
                 tem_hum, ch2o, lastPushAt, hsFailBase, wdtFedAt, wsVars, wsHistory,
                 timerVars, facadeVars>>

NextPublish ==
  \/ PublishRead
  \/ PublishFormat

SpecPublish == InitPublish /\ [][NextPublish]_vars

----------------------------------------------------------------------------
(* The control loop of the first revision with events of every kind *)

\* one event of each kind the transport delivers
FrameEvents ==
  {[Request(1, JStr("AI_server"), JStr("ch2o"), JInt(7)) EXCEPT !.type = t] :
     t \in {"WS_EVT_CONNECT", "WS_EVT_DISCONNECT", "WS_EVT_DATA", "WS_EVT_PONG",
            "WS_EVT_ERROR"}}

\* clock reading at which a run is taken up where the events are handled beside it
FrameStart == 14000

InitFrame == InitMidRun(FrameStart)

\* the transport delivers one event to event_handler_static, which runs to its end
WsFrameEvent ==
  /\ Listening
  /\ wsReading = "none"
  /\ \E ev \in FrameEvents, rd \in TaskReadings :
       LET r == event_handler_static(rev, instance, ev, rd.th, ze08_read(rd.frame)) IN
       /\ wsIn' = ev
       /\ wsSent' = r.sent
       /\ wsCalls' = r.calls
       /\ wsRd' = IF ReadsFacade(rev, instance, ev) = "none" THEN NoReading ELSE rd
       /\ wsReading' = "none"
  /\ UNCHANGED <<rev, loopVars, wsHistory, timerVars, facadeVars, published>>

\* the ticks of loop() and the events beside them
NextFrame ==
  \/ LoopTop
  \/ Push
  \/ ReconnectReturn
  \/ Health
  \/ TickEnd
  \/ LinkLost
  \/ SessionLost
  \/ WsFrameEvent

SpecFrame == InitFrame /\ [][NextFrame]_vars

----------------------------------------------------------------------------
(* The control loop of the first revision without end *)

\* a clock reading taken from the later origin: readings that lie before the new
\* origin are only compared with later ones and are moved to it
Shifted(t, shift, none) ==
  IF t = none THEN none ELSE IF t <= shift THEN 0 ELSE t - shift

\* the sketch uses millis() in differences only (currentMillis - lastUpdate,
\* millis() - startAttemptTime): the origin of the clock is moved to the baseline
\* of the timer, which leaves every difference as it is. The uptime of the restart
\* check is not followed: the behaviour is one between two restarts.
ShiftOrigin ==
  /\ lastUpdate # ULONG_MAX
  /\ lastUpdate > 0
  /\ now' = now - lastUpdate
  /\ lastUpdate' = 0
  /\ linkUpAt' = Shifted(linkUpAt, lastUpdate, Never)
  /\ startAttemptTime' = Shifted(startAttemptTime, lastUpdate, 0)
  /\ wdtFedAt' = Shifted(wdtFedAt, lastUpdate, Never)
  /\ lastPushAt' = Shifted(lastPushAt, lastUpdate, NoPush)
  /\ hsFailBase' = Shifted(hsFailBase, lastUpdate, NoFail)
  /\ UNCHANGED <<rev, pc, wifi, mqttConnected, lastRestartTime, caller, instance,
                 tickLog, pushState, pushLate, tem_hum, ch2o, wsVars, wsHistory,
                 timerVars, facadeVars, published>>

\* half an interval after a push, at the top of a tick
InitLive == InitMidRun(PUSH_INTERVAL_MS \div 2)

\* the clock readings are taken from the baseline of the timer
AtOrigin == lastUpdate \in {0, ULONG_MAX}

\* a step of loop()
LoopStep ==
  /\ AtOrigin
  /\ \/ LoopTop
     \/ Push
     \/ ReconnectReturn
     \/ Health
     \/ TickEnd

\* a step of the access point or the broker
Outage ==
  /\ AtOrigin
  /\ \/ LinkLost
     \/ SessionLost

NextLive ==
  \/ LoopStep
  \/ Outage
  \/ ShiftOrigin

\* the Arduino core calls loop() again whenever it has returned, and every call
\* in it returns: a step of the loop that can be taken is taken
SpecLive ==
  /\ InitLive
  /\ [][NextLive]_vars
  /\ WF_vars(LoopStep)
  /\ WF_vars(ShiftOrigin)

----------------------------------------------------------------------------
(* Properties *)

\* a tick leaves the top of loop()
TickStarts == pc = "idle" /\ pc' # "idle"

\* mqtt_push starts a push
PushStarts == pc = "idle" /\ pc' = "push"

\* the current tick has started a push
InPushTick == CountOp(tickLog, "mqtt_push_imple") = 1

Aborted == pushState \in {"aborted_wifi", "aborted_mqtt"}

StatePublishes(log) ==
  Cardinality({i \in 1..Len(log) : log[i][1] = "publish" /\ log[i][2] \in StateTopics})

\* a step that calls client.connect
Handshake == CountOp(tickLog', "client.connect") > CountOp(tickLog, "client.connect")

\* C1: a tick starts at most one push, two consecutive pushes start at clock
\* readings at least 7000 ms apart, and a tick that finds 7000 ms or more elapsed
\* since the baseline (however many intervals that is) starts exactly one push.
C1_PushSpacing ==
  [][ TickStarts =>
        /\ CountOp(tickLog', "mqtt_push_imple") <= 1
        /\ (pc' = "push" /\ lastPushAt # NoPush
              => now' - lastPushAt >= PUSH_INTERVAL_MS)
        /\ (HasMqtt(rev) /\ lastUpdate # ULONG_MAX /\ now - lastUpdate >= PUSH_INTERVAL_MS
              => pc' = "push" /\ CountOp(tickLog', "mqtt_push_imple") = 1) ]_vars

\* a push that started two or more whole intervals after the previous one
C1_DeferredPush ==
  /\ pushLate
  /\ pc = "push"
  /\ lastPushAt = now
  /\ InPushTick

\* C2: a push in which reconnectWiFi or connect_mqtt returned false reads no
\* sensor and publishes on no state topic, and the push after an aborted one
\* starts no earlier than 7000 ms after the aborted one started.
C2_AbortedPush ==
  [][ /\ (Aborted' => CountOp(tickLog', "read") = 0 /\ StatePublishes(tickLog') = 0)
      /\ (PushStarts /\ Aborted => now' - lastPushAt >= PUSH_INTERVAL_MS) ]_vars

\* reconnectWiFi has just returned false to mqtt_push_imple
C2_AbortedOnWiFi ==
  /\ pushState = "aborted_wifi"
  /\ pc = "health"
  /\ InPushTick
  /\ wifi # "Connected"

\* C3: a push that is not aborted reads each facade once and publishes each
\* metric once on its own topic iff its own reading is valid.
C3_IndependentMetrics ==
  (pushState = "done" /\ InPushTick) =>
    /\ Count(tickLog, Ev("read", "dht22")) = 1
    /\ Count(tickLog, Ev("read", "ze08")) = 1
    /\ Count(tickLog, Ev("publish", TOPIC_TEMPERATURE)) = (IF isnan(tem_hum[1]) THEN 0 ELSE 1)
    /\ Count(tickLog, Ev("publish", TOPIC_HUMIDITY)) = (IF isnan(tem_hum[2]) THEN 0 ELSE 1)
    /\ Count(tickLog, Ev("publish", TOPIC_CH2O)) = (IF ch2o.first THEN 1 ELSE 0)

\* temperature valid, humidity NaN: one publish on the temperature topic only
C3_TemperatureOnly ==
  /\ pushState = "done"
  /\ InPushTick
  /\ ~isnan(tem_hum[1])
  /\ isnan(tem_hum[2])
  /\ Count(tickLog, Ev("publish", TOPIC_TEMPERATURE)) = 1
  /\ Count(tickLog, Ev("publish", TOPIC_HUMIDITY)) = 0

\* C4: in every revision, connect_mqtt called without a session and without a
\* link returns without calling client.connect and without waiting.
C4_NoHandshakeWithoutLink ==
  [][ (pc \in {"setup_server", "push"} /\ HasMqtt(rev) /\ ~mqttConnected
         /\ wifi # "Connected")
        => (~Handshake /\ (pc' \notin {"reconnect_ret"} => now' = now)) ]_vars

\* C5: reconnectWiFi with the link down calls WiFi.disconnect and one WiFi.begin,
\* leaves its polling loop no later than 30000 ms after the association request,
\* only then without a link, and returns true iff the link is Connected at its
\* final status check.
C5_ReconnectBounded ==
  [][ /\ (pc # "reconnect_ret" /\ pc' = "reconnect_ret") =>
            /\ wifi # "Connected"
            /\ tickLog' = tickLog \o <<Ev("WiFi.disconnect", ""), Ev("WiFi.begin", "")>>
            /\ now' - startAttemptTime' <= WIFI_TIMEOUT_MS
            /\ (wifi' # "Connected" => now' - startAttemptTime' = WIFI_TIMEOUT_MS)
      /\ (pc = "reconnect_ret" /\ pc' # "reconnect_ret") =>
            ((wifi = "Connected") <=>
               IF caller = "push" THEN pushState' # "aborted_wifi" ELSE now' = now) ]_vars

\* the polling loop was left on the timeout, the link never came up
C5_TimedOut ==
  /\ pc = "reconnect_ret"
  /\ wifi # "Connected"
  /\ now - startAttemptTime = WIFI_TIMEOUT_MS

\* C6: reconnectWiFi called while the link is Connected returns true and calls
\* neither WiFi.disconnect nor WiFi.begin, does not wait and leaves the link as it is.
C6_ReconnectNoop ==
  [][ (pc = "push" /\ pc' # "push" /\ HasSupervisor(rev) /\ wifi = "Connected") =>
        /\ wifi' = wifi
        /\ linkUpAt' = linkUpAt
        /\ now' = now
        /\ CountOp(tickLog', "WiFi.disconnect") = CountOp(tickLog, "WiFi.disconnect")
        /\ CountOp(tickLog', "WiFi.begin") = CountOp(tickLog, "WiFi.begin")
        /\ pushState' # "aborted_wifi" ]_vars

\* a push went past reconnectWiFi with the link up
C6_PushWhileConnected ==
  /\ rev = "part_000"
  /\ pc = "health"
  /\ InPushTick
  /\ pushState \in {"done", "aborted_mqtt"}
  /\ CountOp(tickLog, "WiFi.begin") = 0
  /\ wifi = "Connected"

\* C7: every successful client.connect is followed at once by one publish on
\* each config topic, and there is no other publish on a config topic.
C7_DiscoveryPerHandshake ==
  /\ \A i \in 1..Len(tickLog) :
       tickLog[i] = Ev("client.connect", "ok") =>
         /\ i + 3 <= Len(tickLog)
         /\ tickLog[i + 1] = Ev("publish", CONFIG_TEMPERATURE)
         /\ tickLog[i + 2] = Ev("publish", CONFIG_HUMIDITY)
         /\ tickLog[i + 3] = Ev("publish", CONFIG_CH2O)
  /\ \A c \in ConfigTopics :
       Count(tickLog, Ev("publish", c)) = Count(tickLog, Ev("client.connect", "ok"))

\* a push that made the handshake and went on to publish readings
C7_HandshakeInPush ==
  /\ pushState = "done"
  /\ InPushTick
  /\ Count(tickLog, Ev("client.connect", "ok")) = 1
  /\ StatePublishes(tickLog) > 0

\* C8: a tick (and setup) calls client.connect at most once, a failed handshake
\* leaves the session disconnected, and the handshake after a failed one is made
\* no earlier than 7000 ms after the push (or setup) of the failed one.
C8_NoImmediateRetry ==
  [][ /\ CountOp(tickLog', "client.connect") <= 1
      /\ Handshake =>
           /\ (hsFailBase # NoFail => now' >= hsFailBase + PUSH_INTERVAL_MS)
           /\ (Count(tickLog', Ev("client.connect", "fail")) > 0 => ~mqttConnected') ]_vars

\* a push is about to retry the handshake that failed in an earlier push
C8_RetryDue ==
  /\ pc = "push"
  /\ hsFailBase # NoFail
  /\ lastPushAt >= hsFailBase + PUSH_INTERVAL_MS
  /\ ~mqttConnected
  /\ wifi = "Connected"

\* C9: in every revision the response to a humidity_temperature request of
\* AI_server carries the id of the request.
C9_IdEchoed ==
  (/\ wsIn.type = "WS_EVT_DATA"
   /\ wsIn.from = JStr("AI_server")
   /\ wsIn.rtype = JStr("humidity_temperature")
   /\ wsIn.id # JNull
   /\ wsSent # <<>>)
    => wsSent[1].id = wsIn.id

\* C10: a frame whose from member is not the string "AI_server" (or is missing)
\* gets no response and causes no sensor read.
C10_UntrustedSenderIgnored ==
  (wsIn.type = "WS_EVT_DATA" /\ wsIn.from # JStr("AI_server"))
    => (wsSent = <<>> /\ wsCalls = <<>>)

\* a well-formed request of another sender on a writable connection was dropped
C10_OtherSenderDropped ==
  /\ instance
  /\ wsIn.type = "WS_EVT_DATA"
  /\ wsIn = Request(1, JStr("ai_server"), JStr("humidity_temperature"), JInt(7))
  /\ wsSent = <<>>
  /\ wsCalls = <<>>

----------------------------------------------------------------------------
(* Properties of the protocol handler *)

\* the frame is one complete final text frame
SingleTextFrame(ev) ==
  ev.final /\ ev.index = 0 /\ ev.lenMatch /\ ev.opcode = "WS_TEXT"

\* the payload is a JSON document that ends before the place of the terminator
Parses(rv, ev) ==
  ev.json /\ ev.len < (IF rv \in {"part_000", "main_cpp"} THEN 512 ELSE 255)

\* the request types a revision answers
Recognised(rv) ==
  IF rv = "Esp32_ino" THEN {JStr("humidity_temperature")}
  ELSE {JStr("humidity_temperature"), JStr("ch2o")}

\* a request the handler answers: the manager is set, the connection is writable,
\* the frame is complete, parses, comes from AI_server with a recognised type, and
\* the revisions that allocate the response buffer get it
AcceptedRequest(rv, inst, ev) ==
  /\ inst
  /\ ev.type = "WS_EVT_DATA"
  /\ ev.client # 0
  /\ ev.canSend
  /\ SingleTextFrame(ev)
  /\ Parses(rv, ev)
  /\ ev.from = JStr("AI_server")
  /\ ev.rtype \in Recognised(rv)
  /\ (rv \in {"part_000b", "Esp32_ino"} => ev.mallocOk)

\* the response to an accepted request with an integer id, given the readings
ExpectedResponse(ev, rd) ==
  IF ev.rtype = JStr("ch2o")
    THEN [client |-> ev.client, from |-> "esp32_sensors", to |-> "AI_server",
          id |-> ev.id, type |-> "ch2o", temperature |-> NaNf, humidity |-> NaNf,
          success |-> ze08_read(rd.frame).first, ppb |-> ze08_read(rd.frame).ppb,
          mgm3 |-> ze08_read(rd.frame).mgm3]
    ELSE [client |-> ev.client, from |-> "esp32_sensors", to |-> "AI_server",
          id |-> ev.id, type |-> "humidity_temperature", temperature |-> rd.th[1],
          humidity |-> rd.th[2], success |-> FALSE, ppb |-> 0,
          mgm3 |-> Flt(0, 0)]

\* a step in which the handler returns
HandlerReturns == wsVars' # wsVars /\ wsReading' = "none"

\* C11: a data frame that is fragmented or not final, is not a text frame, is not
\* JSON, or carries a type other than "humidity_temperature" and "ch2o" gets no
\* frame in return and causes no sensor read.
C11_MalformedDropped ==
  (/\ wsIn.type = "WS_EVT_DATA"
   /\ \/ ~SingleTextFrame(wsIn)
      \/ ~wsIn.json
      \/ wsIn.rtype \notin {JStr("humidity_temperature"), JStr("ch2o")})
    => (wsSent = <<>> /\ wsCalls = <<>>)

\* a request of AI_server whose payload is not JSON was dropped by a set manager
C11_BadJsonDropped ==
  /\ instance
  /\ wsIn = [Request(1, JStr("AI_server"), JStr("humidity_temperature"), JInt(7))
               EXCEPT !.json = FALSE]
  /\ wsSent = <<>>
  /\ wsCalls = <<>>

\* C12: a ch2o request of AI_server on a writable connection (in the revisions that
\* have the gas facade, the response buffer being available) makes one read of the
\* gas facade and sends one response with from "esp32_sensors", to "AI_server", the
\* id of the request, type "ch2o" and the three components of that read.
C12_Ch2oResponse ==
  [][ (/\ HandlerReturns
       /\ rev # "Esp32_ino"
       /\ wsIn'.rtype = JStr("ch2o")
       /\ AcceptedRequest(rev, instance, wsIn'))
        => /\ wsCalls' = <<"ze08.read">>
           /\ Len(wsSent') = 1
           /\ wsSent'[1].client = wsIn'.client
           /\ wsSent'[1].from = "esp32_sensors"
           /\ wsSent'[1].to = "AI_server"
           /\ wsSent'[1].id = wsIn'.id
           /\ wsSent'[1].type = "ch2o"
           /\ wsSent'[1].success = ze08_read(wsRd'.frame).first
           /\ wsSent'[1].ppb = ze08_read(wsRd'.frame).ppb
           /\ wsSent'[1].mgm3 = ze08_read(wsRd'.frame).mgm3 ]_vars

\* facade (true, 120, 0.15) and id 7 give success true, ppb 120, mgm3 0.15, id 7
C12_Ch2oAnswered ==
  /\ wsIn = Request(1, JStr("AI_server"), JStr("ch2o"), JInt(7))
  /\ wsRd.frame = [ok |-> TRUE, ppb |-> 120]
  /\ wsCalls = <<"ze08.read">>
  /\ Len(wsSent) = 1
  /\ wsSent[1].success
  /\ wsSent[1].ppb = 120
  /\ wsSent[1].mgm3 = Flt(10066330, -3)
  /\ wsSent[1].id = JInt(7)

\* C13: a data frame on a connection that cannot accept writes causes no sensor
\* read and no frame, also when it is a well-formed recognised request.
C13_UnwritableSkipped ==
  (wsIn.type = "WS_EVT_DATA" /\ ~wsIn.canSend)
    => (wsSent = <<>> /\ wsCalls = <<>>)

\* a well-formed request of AI_server on an unwritable connection was skipped
C13_RequestOnUnwritable ==
  /\ instance
  /\ wsIn = [Request(1, JStr("AI_server"), JStr("humidity_temperature"), JInt(7))
               EXCEPT !.canSend = FALSE]
  /\ wsSent = <<>>
  /\ wsCalls = <<>>

\* connection, type and id of the accepted requests of a sequence of deliveries
RECURSIVE AcceptedOf(_)
AcceptedOf(ds) ==
  IF ds = <<>> THEN <<>>
  ELSE (IF AcceptedRequest(rev, Head(ds).inst, Head(ds).ev)
          THEN << <<Head(ds).ev.client, Head(ds).ev.rtype.s, Head(ds).ev.id>> >>
          ELSE <<>>)
       \o AcceptedOf(Tail(ds))

\* connection, type and id of the frames sent so far
SentSoFar == [i \in 1..Len(wsOut) |-> <<wsOut[i].client, wsOut[i].type, wsOut[i].id>>]

\* the handler is between the facade read and the response of an accepted request
ResponsePending ==
  /\ wsReading # "none"
  /\ wsDelivered # <<>>
  /\ AcceptedRequest(rev, wsDelivered[Len(wsDelivered)].inst,
                     wsDelivered[Len(wsDelivered)].ev)

\* C14: the frames sent are, in the order of delivery, one frame per accepted
\* request, each to the connection that delivered its request, and nothing else;
\* only the response of the request being handled can be outstanding.
C14_ResponsesInOrder ==
  LET exp == AcceptedOf(wsDelivered) IN
  SentSoFar = IF ResponsePending THEN SubSeq(exp, 1, Len(exp) - 1) ELSE exp

\* client 2, a dropped frame, then client 1: two responses, to 2 and then to 1
C14_TwoClientsAnswered ==
  /\ Len(wsDelivered) = 3
  /\ wsDelivered[1].ev.client = 2
  /\ wsDelivered[2].ev.from = JStr("ai_server")
  /\ wsDelivered[3].ev.client = 1
  /\ wsReading = "none"
  /\ Len(wsOut) = 2
  /\ wsOut[1].client = 2
  /\ wsOut[2].client = 1

----------------------------------------------------------------------------
(* Properties of the handler beside the control loop *)

\* C15: whatever the link state, the broker session and the outcome of the pushes
\* are when a frame is handled, the frames the handler sends are those fixed by
\* the frame and the sensor readings alone: none for a frame that is not accepted,
\* else the one response to the requesting connection.
C15_ResponsesIgnoreConnectivity ==
  [][ HandlerReturns =>
        wsSent' = IF AcceptedRequest(rev, instance, wsIn')
                    THEN <<ExpectedResponse(wsIn', wsRd')>>
                    ELSE <<>> ]_vars

\* a request answered in full although the broker session is down and the last
\* push was aborted
C15_AnsweredWhileSessionDown ==
  /\ wsReading = "none"
  /\ wsIn = Request(1, JStr("AI_server"), JStr("ch2o"), JInt(7))
  /\ wsSent = <<ExpectedResponse(wsIn, wsRd)>>
  /\ wsRd.frame.ok
  /\ ~mqttConnected
  /\ pushState = "aborted_mqtt"
  /\ pc = "health"

\* C16: the telemetry push never reads a facade while the frame handler has a read
\* of the same facade in flight.
C16_FacadeReadsSerialized ==
  [][ \A f \in {"dht22", "ze08"} :
        Count(tickLog', Ev("read", f)) > Count(tickLog, Ev("read", f))
          => wsReading # f ]_vars

----------------------------------------------------------------------------
(* Properties of NonblockingDelayer *)

\* C17: the first call after construction returns false for every interval (0
\* included) and every clock reading, and records the clock reading as the baseline.
C17_FirstCallArms ==
  timerCalls = 1 =>
    /\ timerPrev = ULONG_MAX
    /\ ~timerRet
    /\ lastUpdate = now

\* first call with interval 0 at clock 7000: false, baseline 7000
C17_ArmedWithZeroInterval ==
  /\ timerCalls = 1
  /\ timerMs = 0
  /\ now = 7000
  /\ ~timerRet
  /\ lastUpdate = 7000

\* C18: every call after the arming call, for every stored baseline b and clock
\* reading: returns true and sets the baseline to the clock reading iff
\* now - b >= ms (unsigned), else returns false and leaves the baseline.
C18_ElapsedIff ==
  timerCalls >= 2 =>
    IF USub(now, timerPrev) >= timerMs
      THEN timerRet /\ lastUpdate = now
      ELSE ~timerRet /\ lastUpdate = timerPrev

\* C19: when the clock wrapped between the recording of the baseline and the
\* check, the check returns true iff the true elapsed time is >= the interval.
C19_WrapTolerated ==
  (timerCalls >= 2 /\ now < timerPrev) =>
    (timerRet <=> timerElapsed >= timerMs)

----------------------------------------------------------------------------
(* Startup of the telemetry pusher *)

\* C20: the first tick arms the timer without starting a push, the baseline stays
\* until the first push, the first push starts no earlier than 7000 ms after the
\* arming, and nothing is published on a state topic before it.
C20_NoPushAtStartup ==
  [][ /\ (TickStarts /\ HasMqtt(rev) /\ lastUpdate = ULONG_MAX)
           => (pc' # "push" /\ lastUpdate' = now)
      /\ (lastPushAt' = NoPush /\ lastUpdate # ULONG_MAX) => lastUpdate' = lastUpdate
      /\ (PushStarts /\ lastPushAt = NoPush)
           => (lastUpdate # ULONG_MAX /\ now - lastUpdate >= PUSH_INTERVAL_MS)
      /\ lastPushAt' = NoPush => StatePublishes(tickLog') = 0 ]_vars

\* the first push has started, 7000 ms or more after startup
C20_FirstPush ==
  /\ pc = "push"
  /\ Count(tickLog, Ev("mqtt_push_imple", "first")) = 1
  /\ lastPushAt = now
  /\ now >= PUSH_INTERVAL_MS

----------------------------------------------------------------------------
(* Order of a tick, restart and watchdog *)

\* C21 (as stated): in a tick of the revision with the watchdog, the watchdog reset
\* comes after the housekeeping, the pusher tick, the health check and the restart
\* check of that tick.
C21_WatchdogResetLast ==
  \A i \in 1..Len(tickLog) :
    tickLog[i][1] = "esp_task_wdt_reset" =>
      /\ \E j \in 1..(i - 1) : tickLog[j][1] = "cleanupClients"
      /\ \E j \in 1..(i - 1) : tickLog[j][1] = "mqtt_push"
      /\ pc \notin {"push", "health", "reconnect_ret", "tick_end"}

\* C21 (amended): a tick of the revision with the watchdog performs, in this order:
\* the watchdog reset, cleanupClients, mqtt_push (with the push it may start), the
\* health check with its reconnect, the restart check; the watchdog is reset once
\* per tick, before the other four steps.
C21_TickOrder ==
  [][ HasSupervisor(rev) =>
        /\ TickStarts =>
             /\ Len(tickLog') >= 3
             /\ SubSeq(tickLog', 1, 3) = <<Ev("esp_task_wdt_reset", ""),
                                           Ev("cleanupClients", ""), Ev("mqtt_push", "")>>
             /\ wdtFedAt' = now
             /\ pc' \in {"push", "health"}
        /\ CountOp(tickLog', "esp_task_wdt_reset") <= 1
        /\ (pc # "idle" /\ wdtFedAt' # wdtFedAt) => pc \in {"boot", "tick_end"}
        /\ (pc = "push" /\ pc' # pc) =>
             (pc' = "health" \/ (pc' = "reconnect_ret" /\ caller' = "push"))
        /\ (pc = "reconnect_ret" /\ caller = "push" /\ pc' # pc) => pc' = "health"
        /\ (pc = "health" /\ pc' # pc) =>
             (pc' = "tick_end" \/ (pc' = "reconnect_ret" /\ caller' = "loop"))
        /\ (pc = "reconnect_ret" /\ caller = "loop" /\ pc' # pc) => pc' = "tick_end"
        /\ (pc = "tick_end" /\ pc' # pc) => pc' \in {"idle", "boot"} ]_vars

\* a tick that made a push has come to its restart check: the reset was its first call
C21_ResetThenPush ==
  /\ rev = "part_000"
  /\ pc = "tick_end"
  /\ InPushTick
  /\ tickLog[1] = Ev("esp_task_wdt_reset", "")
  /\ tickLog[2] = Ev("cleanupClients", "")
  /\ wdtFedAt # Never

\* C22: the restart check of a tick restarts the sketch iff it reads
\* millis() - lastRestartTime >= RESTART_INTERVAL, whatever the link and the
\* session are, and the sketch is restarted by nothing else.
C22_RestartAtInterval ==
  [][ /\ (pc = "tick_end" /\ pc' # pc /\ HasSupervisor(rev)) =>
            IF USub(now, lastRestartTime) >= RESTART_INTERVAL
              THEN pc' = "boot" /\ now' = 0 /\ tickLog' = <<Ev("ESP.restart", wifi)>>
              ELSE pc' = "idle"
      /\ (pc' = "boot" /\ pc # "boot") =>
            /\ pc = "tick_end"
            /\ USub(now, lastRestartTime) >= RESTART_INTERVAL ]_vars

\* the sketch was restarted while the link was down
C22_RestartedOffline ==
  /\ pc = "boot"
  /\ Len(tickLog) = 1
  /\ tickLog[1][1] = "ESP.restart"
  /\ tickLog[1][2] # "Connected"

\* C29: in setup and in every tick the time since the watchdog was enabled or last
\* reset stays below the watchdog window of WDT_TIMEOUT seconds.
C29_WatchdogFed ==
  wdtFedAt # Never => now - wdtFedAt < WDT_TIMEOUT * 1000

\* C30: Websocket_manager::setup leaves its wait for the link within a bound (the
\* 30000 ms the sketch allows an association elsewhere), also when the link does
\* not come up.
C30_StartupBounded ==
  pc = "setup_wait" => now - lastRestartTime <= WIFI_TIMEOUT_MS

----------------------------------------------------------------------------
(* Allocation failure in the protocol handler *)

\* C27: in the revisions that allocate the response buffer, a request whose
\* allocation fails gets no frame and the handler returns; the request handled
\* after it is answered like any other.
C27_AllocationFailureDrops ==
  [][ HandlerReturns =>
        /\ (rev \in {"part_000b", "Esp32_ino"} /\ wsIn'.type = "WS_EVT_DATA"
              /\ ~wsIn'.mallocOk) => wsSent' = <<>>
        /\ (~wsIn.mallocOk /\ wsIn'.id.k = "int"
              /\ AcceptedRequest(rev, instance, wsIn'))
             => wsSent' = <<ExpectedResponse(wsIn', wsRd')>> ]_vars

\* a ch2o request whose response buffer could not be allocated: the facade was
\* read, nothing was sent
C27_ResponseDropped ==
  /\ rev = "part_000b"
  /\ instance
  /\ wsIn = [Request(1, JStr("AI_server"), JStr("ch2o"), JInt(7)) EXCEPT !.mallocOk = FALSE]
  /\ wsCalls = <<"ze08.read">>
  /\ wsSent = <<>>
  /\ wsReading = "none"

----------------------------------------------------------------------------
(* Properties of the gas facade *)

\* C23: read and readUntil return success iff the frame read of the driver reported
\* a frame, then with the ppb of the frame and the mass derived from it, and else
\* false, 0 and 0 whatever the frame buffer holds; the two give the same result for
\* the same outcome of the frame read.
C23_ReadResult ==
  gasOp \in {"read", "readUntil"} =>
    IF gasFrame.ok
      THEN /\ gasRet.first
           /\ gasRet.ppb = gasFrame.ppb
           /\ gasRet.mgm3 = ppb_to_mgm3(gasFrame.ppb)
      ELSE /\ ~gasRet.first
           /\ gasRet.ppb = 0
           /\ gasRet.mgm3 = Flt(0, 0)

\* readUntil ran into its timeout while the frame buffer held an older reading
C23_TimedOut ==
  /\ gasOp = "readUntil"
  /\ gasFrame = [ok |-> FALSE, ppb |-> 120]
  /\ gasRet = NoGas

\* C24: is_active_mode changes only in activeMode() (to true) and passiveMode() (to
\* false); read and readUntil call requestRead once, before the frame read, in
\* passive mode, and not at all in active mode.
C24_ModeGovernsRequests ==
  [][ /\ is_active_mode' # is_active_mode
           => (gasCount' = gasCount + 1 /\ gasOp' \in {"activeMode", "passiveMode"})
      /\ (gasCount' # gasCount /\ gasOp' = "activeMode") => is_active_mode'
      /\ (gasCount' # gasCount /\ gasOp' = "passiveMode") => ~is_active_mode'
      /\ (gasCount' # gasCount /\ gasOp' \in {"read", "readUntil"})
           => wzCalls' = IF is_active_mode THEN <<gasOp'>>
                                           ELSE <<"requestRead", gasOp'>> ]_vars

\* a read in passive mode after the mode was changed twice
C24_PassiveRead ==
  /\ gasCount = 4
  /\ gasOp = "read"
  /\ ~is_active_mode
  /\ wzCalls = <<"requestRead", "read">>

----------------------------------------------------------------------------
(* Properties of the published values *)

\* C25 (as stated): the mass concentration of a reading equals ppb * 0.00125, that
\* is ppb / 800, exactly.
C25_ConversionExact ==
  (pc # "publish_read" /\ ch2o.first) =>
    25 * ch2o.mgm3.m = ch2o.ppb * 2^(18 - ch2o.mgm3.e)

\* C25 (amended): the mass concentration of a reading is the single precision
\* float nearest to ppb * 0.00125, for every ppb of 0..65535: it differs from
\* ppb * 0.00125 by at most half a unit of its last binary place, and equals it
\* iff ppb is a multiple of 25.
C25_ConversionNearest ==
  (pc # "publish_read" /\ ch2o.first) =>
    LET m == ch2o.mgm3.m
        x == ch2o.ppb * 2^(18 - ch2o.mgm3.e)
    IN /\ ~ch2o.mgm3.nan
       /\ IF ch2o.ppb = 0 THEN m = 0 ELSE (2^23 <= m /\ m < 2^24)
       /\ 2 * Abs(25 * m - x) <= 25
       /\ (25 * m = x) <=> (ch2o.ppb % 25 = 0)

\* ppb 120: the float nearest to 0.15, which is not 0.15
C25_RoundedValue ==
  /\ pc = "publish_format"
  /\ ch2o.first
  /\ ch2o.ppb = 120
  /\ ch2o.mgm3 = Flt(10066330, -3)

\* the string str has prec fraction digits and the sign of f, and its value is no
\* more than half a unit of its last digit away from f
HalfUnit(f, str, prec) ==
  LET P == Times5Pow(f, prec)
      s == 23 - f.e - prec
  IN /\ str.prec = prec
     /\ str.neg = (f.m < 0)
     /\ str.n >= 0
     /\ s >= 12
     /\ s <= 30
     /\ 2 * Abs((P.hi - str.n * 2^(s - 12)) * 4096 + P.lo) <= 2^s

\* C26: each string a push publishes (2 fraction digits for temperature and
\* humidity, 5 for the gas), read back as a number, is no more than half a unit of
\* its last digit away from the reading it was made from.
C26_RoundTrip ==
  pc = "publish_done" =>
    /\ IF isnan(tem_hum[1]) THEN published.tem_str = NoStr
                            ELSE HalfUnit(tem_hum[1], published.tem_str, 2)
    /\ IF isnan(tem_hum[2]) THEN published.hum_str = NoStr
                            ELSE HalfUnit(tem_hum[2], published.hum_str, 2)
    /\ IF ch2o.first THEN HalfUnit(ch2o.mgm3, published.ch2o_str, 5)
                     ELSE published.ch2o_str = NoStr

\* 22.125, half a unit from both, is published as 22.12, and -5.5 as -5.50
C26_TieRounded ==
  /\ pc = "publish_done"
  /\ tem_hum = <<Flt(11599872, 4), Flt(-11534336, 2)>>
  /\ published.tem_str = Str(FALSE, 2212, 2)
  /\ published.hum_str = Str(TRUE, 550, 2)

----------------------------------------------------------------------------
(* What changes the baseline of the timer *)

\* C28: the baseline of the timer changes only in the timer check that opens the
\* pusher tick (arming, or 7000 ms elapsed), so not in the handling of an event, a
\* reconnect, a broker connect or an aborted push; the handling of an event leaves
\* the link, the session and the mode of the gas facade as they are.
C28_BaselineFrame ==
  [][ /\ lastUpdate' # lastUpdate =>
           /\ TickStarts
           /\ lastUpdate' = now
           /\ (lastUpdate = ULONG_MAX \/ USub(now, lastUpdate) >= PUSH_INTERVAL_MS)
      /\ wsVars' # wsVars =>
           UNCHANGED <<lastUpdate, wifi, linkUpAt, mqttConnected, is_active_mode>> ]_vars

\* an error event was handled in a tick whose push was aborted after a reconnect:
\* the baseline is the clock reading of the timer check of that tick
C28_BaselineKept ==
  /\ pc = "health"
  /\ pushState = "aborted_mqtt"
  /\ CountOp(tickLog, "WiFi.begin") = 1
  /\ wsIn.type = "WS_EVT_ERROR"
  /\ wsCalls = <<"close">>
  /\ lastUpdate = lastPushAt

----------------------------------------------------------------------------
(* The timer stays armed *)

\* C31: after the first call of is_expired_when_delay no later call behaves like an
\* arming call: none returns false although now - baseline >= interval, whatever
\* clock reading the baseline was recorded at (ULONG_MAX included).
C31_StaysArmed ==
  timerCalls >= 2 => ~(~timerRet /\ USub(now, timerPrev) >= timerMs)

----------------------------------------------------------------------------
(* Discovery before state *)

\* the calls a step adds to the log of the tick
Added == SubSeq(tickLog', Len(tickLog) + 1, Len(tickLog'))

\* the log lg opens a session: a successful client.connect, then one publish on
\* each config topic, all before the first publish on a state topic
OpensSession(lg) ==
  \E i \in 1..Len(lg) :
    /\ lg[i] = Ev("client.connect", "ok")
    /\ i + 3 <= Len(lg)
    /\ SubSeq(lg, i + 1, i + 3) = publish_mqtt_discovery
    /\ \A j \in 1..(i + 3) : ~(lg[j][1] = "publish" /\ lg[j][2] \in StateTopics)

\* C32: a broker session begins only with a successful handshake followed at once
\* by the three config publishes, and a publish on a state topic is made only by
\* a push that found the session connected or has opened it that way before its
\* first state publish, and (first revision) found the link connected.
C32_DiscoveryBeforeState ==
  [][ /\ (mqttConnected' /\ ~mqttConnected) =>
           (Len(tickLog') > Len(tickLog) /\ OpensSession(Added))
      /\ StatePublishes(tickLog') > StatePublishes(tickLog) =>
           /\ pc \in {"push", "reconnect_ret"}
           /\ HasSupervisor(rev) => wifi = "Connected"
           /\ mqttConnected \/ OpensSession(Added)
           /\ mqttConnected' ]_vars

\* a push after a reconnect published three readings on the session it found
C32_PublishedOnStandingSession ==
  /\ pushState = "done"
  /\ InPushTick
  /\ CountOp(tickLog, "WiFi.begin") = 1
  /\ CountOp(tickLog, "client.connect") = 0
  /\ StatePublishes(tickLog) = 3

----------------------------------------------------------------------------
(* Recovery of the telemetry *)

\* a step in which the link and the broker are reachable and the sensors answer:
\* the link and the session are not lost, a reconnect ends with the link up, no
\* handshake fails, and a completed push has read three valid values
Reachable ==
  /\ wifi = "Connected" => wifi' = "Connected"
  /\ mqttConnected => mqttConnected'
  /\ (pc' = "reconnect_ret" /\ pc # "reconnect_ret") => wifi' = "Connected"
  /\ Count(tickLog', Ev("client.connect", "fail"))
       <= Count(tickLog, Ev("client.connect", "fail"))
  /\ (Len(tickLog') > Len(tickLog) /\ pushState' = "done" /\ pc \in {"push", "reconnect_ret"})
       => (~isnan(tem_hum'[1]) /\ ~isnan(tem_hum'[2]) /\ ch2o'.first)

\* C33: if from some point on every step is one with the link and the broker
\* reachable and valid readings, and the loop keeps ticking, then ticks that
\* publish on a state topic occur again and again, whatever came before.
C33_TelemetryRecovers ==
  <>[][Reachable]_vars => []<>(StatePublishes(tickLog) > 0)

\* a push that had to reconnect the link and to open the session published three
\* readings
C33_PublishedAfterOutage ==
  /\ pushState = "done"
  /\ InPushTick
  /\ CountOp(tickLog, "WiFi.begin") = 1
  /\ Count(tickLog, Ev("client.connect", "ok")) = 1
  /\ StatePublishes(tickLog) = 3
  /\ lastPushAt = 0
  /\ now > 0

----------------------------------------------------------------------------
(* Association attempts of a tick *)

\* C34 (as stated): a tick makes at most one association attempt (one
\* WiFi.disconnect and one WiFi.begin), also when it starts a push.
C34_OneAttemptPerTick ==
  /\ CountOp(tickLog, "WiFi.begin") <= 1
  /\ CountOp(tickLog, "WiFi.disconnect") <= 1

\* C34 (amended): a tick makes at most two association attempts, at most one in
\* mqtt_push_imple (in a tick whose timer check found the interval elapsed) and
\* at most one in the health check of loop(); a tick that starts no push makes at
\* most one. Each attempt is one WiFi.disconnect and one WiFi.begin.
C34_AttemptsPerTick ==
  [][ /\ CountOp(tickLog', "WiFi.begin") > CountOp(tickLog, "WiFi.begin") =>
           /\ pc \in {"boot", "push", "health"}
           /\ CountOp(tickLog', "WiFi.begin") = CountOp(tickLog, "WiFi.begin") + 1
           /\ CountOp(tickLog', "WiFi.disconnect")
                = CountOp(tickLog, "WiFi.disconnect") + (IF pc = "boot" THEN 0 ELSE 1)
      /\ CountOp(tickLog', "WiFi.begin")
           <= (IF CountOp(tickLog', "mqtt_push_imple") = 1 THEN 2 ELSE 1) ]_vars

\* the health check of a tick requests the association again after the push of
\* the same tick was aborted by a reconnect that timed out
C34_SecondAttempt ==
  /\ pc = "reconnect_ret"
  /\ caller = "loop"
  /\ InPushTick
  /\ pushState = "aborted_wifi"
  /\ CountOp(tickLog, "WiFi.begin") = 2

----------------------------------------------------------------------------
(* The manager pointer and the length of a request *)

\* dht22 and ze08 are set in the constructor's initialiser list, before setup() runs
FacadesAcquired == pc # "boot"

\* the handler called a facade or ws.text, all of which go through instance
UsesManager(sent, calls) ==
  sent # <<>> \/ calls \in {<<"get_temperature_humidity">>, <<"ze08.read">>}

\* C35: a data frame handled while the static instance pointer is still null causes
\* no sensor read, no response and no use of the pointer; a frame that is served is
\* served after the pointer was published, with both facades acquired.
C35_NoServiceThroughUnsetManager ==
  [][HandlerReturns =>
       /\ (~instance /\ wsIn'.type = "WS_EVT_DATA") => (wsSent' = <<>> /\ wsCalls' = <<>>)
       /\ UsesManager(wsSent', wsCalls') => (instance /\ FacadesAcquired)]_vars

\* a request that would be answered arrived while the server was listening and the
\* pointer was still null: nothing was read and nothing was sent
C35_FrameBeforePublication ==
  /\ ~instance
  /\ pc = "setup_server"
  /\ AcceptedRequest(rev, TRUE, wsIn)
  /\ wsSent = <<>>
  /\ wsCalls = <<>>

\* a recognised request from AI_server on a writable connection, one final text
\* frame whose whole payload is the JSON document, whatever its length
WellFormedRequest(rv, inst, ev) ==
  /\ inst
  /\ ev.type = "WS_EVT_DATA"
  /\ ev.client # 0
  /\ ev.canSend
  /\ SingleTextFrame(ev)
  /\ ev.json
  /\ ev.jsonLen = ev.len
  /\ ev.from = JStr("AI_server")
  /\ ev.rtype \in Recognised(rv)
  /\ (rv \in {"part_000b", "Esp32_ino"} => ev.mallocOk)

\* C36: a well-formed recognised request from AI_server on a writable connection,
\* delivered as one final text frame, yields exactly one response whatever the
\* length of its payload.
C36_AnsweredWhateverLength ==
  [][(HandlerReturns /\ WellFormedRequest(rev, instance, wsIn')) => Len(wsSent') = 1]_vars

----------------------------------------------------------------------------
(* The buffer of the gas value *)

\* C37: for every ppb in 0..65535 the string of ppb * 0.00125 with 5 fraction
\* digits that a push writes has at most 9 characters, so with its terminator it
\* stays within the 10 bytes of ch2o_str.
C37_GasStringFits ==
  (pc = "publish_done" /\ ch2o.first) =>
    /\ StrLen(published.ch2o_str) <= 9
    /\ StrLen(published.ch2o_str) + 1 <= CH2O_STR_SIZE

\* the largest reading, 65535 ppb, is written as 81.91875: 8 characters
C37_LargestReading ==
  /\ pc = "publish_done"
  /\ ch2o.first
  /\ ch2o.ppb = MaxPpb
  /\ published.ch2o_str = Str(FALSE, 8191875, 5)
  /\ StrLen(published.ch2o_str) = 8

----------------------------------------------------------------------------
(* The singletons *)

\* C38: for any number of getInstance calls with any arguments, each of
\* Sensor_DHT22, Sensor_ZE08_CH2O and Websocket_manager returns the instance its
\* first call made, later arguments change nothing of it, and dht.begin, the mode
\* command, WiFi.begin and server.begin have each run exactly once when the
\* instance they initialise exists.
C38_SingletonsOnce ==
  [][ /\ \A c \in {"dht22", "ze08", "manager"} :
           /\ statics[c].made => statics'[c] = statics[c]
           /\ (statics'.calls # statics.calls /\ statics'.cls = c)
                => (statics'.ret.made /\ statics'.ret = statics'[c])
      /\ statics'.dht22.made => statics'.dht_begin = 1
      /\ statics'.ze08.made => statics'.mode_cmd = 1
      /\ statics'.manager.made => (statics'.wifi_begin = 1 /\ statics'.server_begin = 1) ]_vars

====
